---- MODULE Spec2Model ----
(***************************************************************************)
(* A model of the price-elasticity pipeline of rgm-analytics:              *)
(*   analisis_elasticidad_final.py  (class ElasticityAnalyzer)             *)
(*   analisis_elasticidad.py        (analisis_elasticidad_completo,        *)
(*                                   calcular_elasticidades)               *)
(*   test_elasticidad_mejorado.py   (the "improved" script)                *)
(*   test_elasticidad.py            (the "batch" script)                   *)
(*                                                                         *)
(* The pipeline is a chain of stages.  Each stage is checked under its own *)
(* specification, whose Init draws the stage's input from bounded sets:    *)
(*   SpecValidate  input table -> Numeric Normalizer -> Record Validator   *)
(*   SpecSelect    profiles -> tiered Candidate Selector -> ranked list    *)
(*   SpecSelectCompleto  the same stage of analisis_elasticidad_completo   *)
(*   SpecEstimate  bucket aggregates -> the four estimator variants        *)
(*   SpecSummary   valid prices per product -> profile table -> selection  *)
(*   SpecRun       SpecLoop, then the filter on the loop's results          *)
(*   SpecFrame     SpecValidate, then one product's rows copied and labelled *)
(*   SpecStrategies the choice among one product's strategy results         *)
(*   SpecScale     the profile of a product and of the same prices times k   *)
(*   SpecRegression SpecEstimate on buckets with power-of-two logs            *)
(*   SpecQuantile  one product's prices -> the quantile strategy's labels    *)
(*   SpecProfile   SpecValidate, then the profile table of the valid records *)
(*   SpecSegment   one product's prices -> bucket labels -> robust estimate *)
(*   SpecLoop      ranked candidates -> the per-candidate loop's rows       *)
(*   SpecFilter    estimates -> Result Filter & Classifier -> final table  *)
(*                                                                         *)
(* Numbers.  Python floats are modelled by exact scaled integers:          *)
(*   elasticity in units of 0.1   (-0.5 is -5, -20 is -200),               *)
(*   R-squared  in units of 0.01  (0.05 is 5, 0.3 is 30),                  *)
(*   table cells in units of 0.01 ("12,50" is 1250),                       *)
(*   CV and price range in units of 0.01 (a CV of 0.15 is 15, 30% is 30).  *)
(* Where a value may be missing it is a record, Num(v) or NaN; every       *)
(* comparison with NaN is FALSE, as in IEEE-754.  Arithmetic is exact:     *)
(* the regression works on base-2 logarithms of powers of two (the slope   *)
(* and R-squared of a log-log fit do not depend on the base) and returns   *)
(* exact fractions.  Floating-point rounding is modelled in SpecScale      *)
(* only, where every operation rounds to FloatBits significant bits.       *)
(* A library call inside a try block may raise; its handler is modelled.   *)
(***************************************************************************)
EXTENDS Integers, Sequences, FiniteSets, TLC

VARIABLES
    pc,             \* position of the modelled program
    variant,        \* which script's code ran ("final", "completo", "mejorado", "batch")
    df,             \* the caller's input table (cells as text, after astype(str))
    df_clean,       \* the table after the Numeric Normalizer
    df_valid,       \* the table after the Record Validator
    product_summary,   \* the Product Variability Scorer's table, one row per SKU
    min_transactions,  \* ElasticityAnalyzer.min_transactions
    candidates,        \* the Candidate Selector's current candidate table
    max_products,      \* the cap on the number of products analysed
    skus_to_analyze,   \* the ranked, capped list handed to the per-candidate loop
    agg_data,       \* one product's bucket aggregates, in bucket order
    estimate,       \* what an estimator variant returned for agg_data
    method_results, \* what each segmentation strategy gave for one product
    sku_data_temp,  \* one product's rows of df_valid, copied, with their bucket labels
    sku_prices,     \* per product, in SKU order: the bag of its valid prices
    segments,       \* per strategy: the bucket label of each price of a product
    sku_data,       \* per candidate of skus_to_analyze: what its rows give
    loop_i,         \* index of the next candidate of the per-candidate loop
    aggregated_data,\* analisis_elasticidad_completo's list of bucket tables
    results,        \* the rows the per-candidate loop has appended
    estimates,      \* per candidate, in loop order: the estimator's outcome
    min_r2,         \* ElasticityAnalyzer.min_r2
    valid_results,  \* the table the Result Filter returns
    self_results    \* ElasticityAnalyzer.results

validateVars == <<df, df_clean, df_valid, sku_data_temp>>
selectVars == <<product_summary, min_transactions, candidates, max_products, skus_to_analyze>>
summaryVars == <<sku_prices, segments>>
estimateVars == <<agg_data, estimate, method_results>>
loopVars == <<sku_data, loop_i, aggregated_data, results>>
filterVars == <<estimates, min_r2, valid_results, self_results>>

vars == <<pc, variant, validateVars, summaryVars, selectVars, estimateVars, loopVars,
          filterVars>>

\* The variables of a stage that a specification does not run.
IdleValidate ==
    df = <<>> /\ df_clean = <<>> /\ df_valid = <<>> /\ sku_data_temp = <<>>
IdleSelect ==
    /\ product_summary = <<>> /\ min_transactions = 0
    /\ candidates = <<>> /\ max_products = 0 /\ skus_to_analyze = <<>>
IdleSummary == sku_prices = <<>> /\ segments = <<>>
IdleEstimate ==
    agg_data = <<>> /\ estimate = [none |-> TRUE] /\ method_results = <<>>
IdleLoop == sku_data = <<>> /\ loop_i = 0 /\ aggregated_data = <<>> /\ results = <<>>
IdleFilter == estimates = <<>> /\ min_r2 = 0 /\ valid_results = <<>> /\ self_results = <<>>

\* Python's None (a record, so that it compares with result records).
None == [none |-> TRUE]

\* The product identifiers of the model, in sorted order.
SkuPool == <<"A", "B", "C", "D", "E", "F", "G", "H", "I", "J", "K", "L", "M">>

(***************************************************************************)
(* Numeric Normalizer and Record Validator                                 *)
(***************************************************************************)

\* Largest number of rows of the input table.
MaxRows == 2

\* A float is a record: a finite number v (k = "num"), the missing marker NaN,
\* or an infinity.
Num(v) == [k |-> "num", v |-> v]
NaN == [k |-> "nan", v |-> 0]
PosInf == [k |-> "inf", v |-> 0]
NegInf == [k |-> "ninf", v |-> 0]

Digits == <<"0", "1", "2", "3", "4", "5", "6", "7", "8", "9">>
IsDigit(c) == \E d \in 1..10 : Digits[d] = c
DigitVal(c) == (CHOOSE d \in 1..10 : Digits[d] = c) - 1

\* str.replace(',', '.', regex=False): every comma becomes a decimal point.
ReplaceComma(s) == [i \in 1..Len(s) |-> IF s[i] = "," THEN "." ELSE s[i]]

AllDigits(s) == \A i \in 1..Len(s) : IsDigit(s[i])

RECURSIVE DigitsVal(_)
DigitsVal(s) ==
    IF s = <<>> THEN 0
    ELSE 10 * DigitsVal(SubSeq(s, 1, Len(s) - 1)) + DigitVal(s[Len(s)])

\* pd.to_numeric(errors='coerce') on an unsigned decimal literal with at most
\* two fractional digits: its value in units of 0.01, NaN for any other text.
ParseUnsigned(s) ==
    LET dots == {i \in 1..Len(s) : s[i] = "."}
    IN  IF dots = {} THEN
            (IF s # <<>> /\ AllDigits(s) THEN Num(100 * DigitsVal(s)) ELSE NaN)
        ELSE IF Cardinality(dots) > 1 THEN NaN
        ELSE LET d == CHOOSE i \in dots : TRUE
                 int == SubSeq(s, 1, d - 1)
                 frac == SubSeq(s, d + 1, Len(s))
             IN  IF /\ AllDigits(int) /\ AllDigits(frac)
                    /\ Len(int) + Len(frac) > 0 /\ Len(frac) <= 2
                 THEN Num(100 * DigitsVal(int)
                          + (IF Len(frac) = 1 THEN 10 * DigitsVal(frac)
                             ELSE DigitsVal(frac)))
                 ELSE NaN

ToNumeric(s) ==
    IF s # <<>> /\ s[1] = "-" THEN
        (LET x == ParseUnsigned(Tail(s)) IN IF x = NaN THEN NaN ELSE Num(0 - x.v))
    ELSE IF s # <<>> /\ s[1] = "+" THEN ParseUnsigned(Tail(s))
    ELSE ParseUnsigned(s)

\* The normalizer with empty text read as zero.
CleanCellEmptyZero(raw) == IF raw = <<>> THEN Num(0) ELSE ToNumeric(ReplaceComma(raw))

\* One cell through clean_numeric_columns / clean_numeric_data.
CleanCell(raw) == ToNumeric(ReplaceComma(raw))

\* clean_numeric_columns / clean_numeric_data on the three columns the
\* validator reads; the result is a copy, the input table is left alone.
CleanNumericData(table) ==
    [i \in 1..Len(table) |->
        [idx |-> table[i].idx, SKU |-> table[i].SKU,
         PRECIO |-> CleanCell(table[i].PRECIO),
         QTY_ENTREGADA |-> CleanCell(table[i].QTY_ENTREGADA),
         IMPORTE |-> CleanCell(table[i].IMPORTE)]]

\* Float comparisons and Series.notna(): NaN compares FALSE with everything.
GtZero(x) == (x.k = "num" /\ x.v > 0) \/ x.k = "inf"
NotNa(x) == x.k # "nan"

\* analisis_elasticidad_completo, lines 47-54 (and test_elasticidad.py 39-46).
ValidCompleto(r) ==
    /\ GtZero(r.PRECIO) /\ GtZero(r.QTY_ENTREGADA) /\ GtZero(r.IMPORTE)
    /\ NotNa(r.PRECIO) /\ NotNa(r.QTY_ENTREGADA) /\ NotNa(r.IMPORTE)

\* The validator with the revenue test forgotten.
ValidFinalNoImporte(r) ==
    /\ GtZero(r.PRECIO) /\ GtZero(r.QTY_ENTREGADA)
    /\ NotNa(r.PRECIO) /\ NotNa(r.QTY_ENTREGADA)

\* ElasticityAnalyzer.run_analysis, lines 175-181: no IMPORTE.notna() test.
ValidFinal(r) ==
    /\ GtZero(r.PRECIO) /\ GtZero(r.QTY_ENTREGADA) /\ GtZero(r.IMPORTE)
    /\ NotNa(r.PRECIO) /\ NotNa(r.QTY_ENTREGADA)

\* The cell texts drawn for each column.
RawPrecio == {<<"x">>, <<"0">>, <<"1", ",", "5">>}
RawQty == {<<>>, <<"0">>, <<"3">>}
RawImporte == {<<"n", "a", "n">>, <<"-", "2">>, <<"4", ".", "5", "0">>}

RawRows ==
    [SKU : {"A", "B"}, PRECIO : RawPrecio, QTY_ENTREGADA : RawQty, IMPORTE : RawImporte]

\* The input table of the given rows, with the default RangeIndex as idx.
RawTable(f) ==
    [i \in 1..Len(f) |->
        [idx |-> i, SKU |-> f[i].SKU, PRECIO |-> f[i].PRECIO,
         QTY_ENTREGADA |-> f[i].QTY_ENTREGADA, IMPORTE |-> f[i].IMPORTE]]

CleanNumeric ==
    /\ pc = "loaded"
    /\ df_clean' = CleanNumericData(df)
    /\ pc' = "cleaned"
    /\ UNCHANGED <<variant, df, df_valid, sku_data_temp, selectVars, estimateVars, loopVars, filterVars,
                   summaryVars>>

\* analisis_elasticidad_completo, lines 47-56: the mask, then the report line
\* that divides by len(df_ventas) and raises ZeroDivisionError on no rows.
ValidateCompleto ==
    /\ pc = "cleaned"
    /\ df_valid' = SelectSeq(df_clean, ValidCompleto)
    /\ pc' = IF Len(df_clean) = 0 THEN "raised" ELSE "validated"
    /\ variant' = "completo"
    /\ UNCHANGED <<df, df_clean, sku_data_temp, selectVars, estimateVars, loopVars, filterVars,
                   summaryVars>>

ValidateFinal ==
    /\ pc = "cleaned"
    /\ df_valid' = SelectSeq(df_clean, ValidFinal)
    /\ pc' = "validated"
    /\ variant' = "final"
    /\ UNCHANGED <<df, df_clean, sku_data_temp, selectVars, estimateVars, loopVars, filterVars,
                   summaryVars>>

InitValidate ==
    /\ pc = "loaded"
    /\ variant = "none"
    /\ \E n \in 0..MaxRows : \E f \in [1..n -> RawRows] : df = RawTable(f)
    /\ df_clean = <<>>
    /\ df_valid = <<>>
    /\ sku_data_temp = <<>>
    /\ IdleSummary
    /\ IdleSelect
    /\ IdleEstimate
    /\ IdleLoop
    /\ IdleFilter

NextValidate ==
    \/ CleanNumeric
    \/ ValidateCompleto
    \/ ValidateFinal

SpecValidate == InitValidate /\ [][NextValidate]_vars

(***************************************************************************)
(* Claims about the Record Validator (checked under SpecValidate)          *)
(***************************************************************************)

Rows(s) == {s[i] : i \in 1..Len(s)}

\* Present (not missing) and strictly greater than 0.
PresentPositive(x) == x # NaN /\ x.v > 0

ValidRecord(r) ==
    /\ PresentPositive(r.PRECIO)
    /\ PresentPositive(r.QTY_ENTREGADA)
    /\ PresentPositive(r.IMPORTE)

\* C1: under both validator variants the validated record set is exactly the
\* subsequence of the normalized input rows whose price, delivered quantity and
\* revenue are all present and > 0: no violating row survives, no satisfying row
\* is removed, and the survivors keep their field values and relative order.
C1_ValidatorExactSubsequence ==
    pc = "validated" =>
        /\ \A r \in Rows(df_valid) : r \in Rows(df_clean) /\ ValidRecord(r)
        /\ \A r \in Rows(df_clean) : ValidRecord(r) => r \in Rows(df_valid)
        /\ \A i, j \in 1..Len(df_valid) : i < j => df_valid[i].idx < df_valid[j].idx
        /\ \A i \in 1..Len(df_valid) :
              df_valid[i].SKU = df[df_valid[i].idx].SKU

\* run_analysis (no IMPORTE.notna() test) has rejected a row whose revenue is
\* missing while its price and quantity are valid, and has kept another row.
C1_Witness ==
    /\ pc = "validated" /\ variant = "final"
    /\ \E r \in Rows(df_clean) :
          /\ r.IMPORTE = NaN /\ PresentPositive(r.PRECIO)
          /\ PresentPositive(r.QTY_ENTREGADA) /\ r \notin Rows(df_valid)
    /\ Len(df_valid) = 1

\* Text that is no decimal literal: empty, or holding a character that is
\* neither a digit, a sign nor a decimal separator.
Unparseable(raw) ==
    \/ raw = <<>>
    \/ \E i \in 1..Len(raw) : ~IsDigit(raw[i]) /\ raw[i] \notin {",", ".", "-", "+"}

NumericFields(r) == {r.PRECIO, r.QTY_ENTREGADA, r.IMPORTE}

\* C13: normalization gives every raw value a number or the missing marker;
\* an unparseable or empty value becomes missing, never 0; and a record with
\* a missing price, quantity or revenue is absent from the validated set.
C13_NormalizerTotalAndMissing ==
    /\ pc \in {"cleaned", "validated"} =>
        /\ Len(df_clean) = Len(df)
        /\ \A i \in 1..Len(df) :
            /\ \A x \in NumericFields(df_clean[i]) : x.k \in {"num", "nan"}
            /\ Unparseable(df[i].PRECIO) => df_clean[i].PRECIO = NaN
            /\ Unparseable(df[i].QTY_ENTREGADA) => df_clean[i].QTY_ENTREGADA = NaN
            /\ Unparseable(df[i].IMPORTE) => df_clean[i].IMPORTE = NaN
    /\ pc = "validated" =>
        \A i \in 1..Len(df_clean) :
            NaN \in NumericFields(df_clean[i]) =>
                \A j \in 1..Len(df_valid) : df_valid[j].idx # i

\* An empty quantity became missing and its row was rejected, next to a row
\* that was kept.
C13_Witness ==
    /\ pc = "validated"
    /\ \E i \in 1..Len(df) :
          /\ df[i].QTY_ENTREGADA = <<>>
          /\ df_clean[i].QTY_ENTREGADA = NaN
          /\ PresentPositive(df_clean[i].PRECIO)
          /\ PresentPositive(df_clean[i].IMPORTE)
    /\ Len(df_valid) = 1
    /\ Len(df) = 2

\* C14: for every finite input table, one with zero rows included, the entry
\* points end with a result table and raise no exception.
C14_RunNeverRaises == pc # "raised"

(***************************************************************************)
(* Candidate Selector                                                      *)
(***************************************************************************)

\* Largest number of products in the profile table of run_analysis.
MaxSkus == 5

\* The size targets of run_analysis (lines 210 and 219).
Tier2Target == 5
Tier3Target == 3

\* Series >= threshold on a float column: FALSE for NaN.
GeF(x, t) == x.k = "num" /\ x.v >= t

\* run_analysis, lines 203-208.
PassesTier1(p, mt) ==
    /\ p.transactions >= mt
    /\ GeF(p.price_cv, 15)
    /\ p.price_unique >= 4
    /\ GeF(p.price_range_pct, 30)

\* run_analysis, lines 212-217.
PassesTier2(p) ==
    /\ p.transactions >= 15
    /\ GeF(p.price_cv, 10)
    /\ p.price_unique >= 3
    /\ GeF(p.price_range_pct, 20)

\* Tier 3 reduced to its transaction count.
PassesTier3TransactionsOnly(p) ==
    p.transactions >= 10

\* run_analysis, lines 221-225.
PassesTier3(p) ==
    /\ p.transactions >= 10
    /\ GeF(p.price_cv, 5)
    /\ p.price_unique >= 2

\* The position of the first row with the largest price_cv.
FirstMax(s) ==
    CHOOSE i \in 1..Len(s) :
        /\ \A j \in 1..Len(s) : s[j].price_cv.v <= s[i].price_cv.v
        /\ \A j \in 1..(i - 1) : s[j].price_cv.v < s[i].price_cv.v

Without(s, i) == SubSeq(s, 1, i - 1) \o SubSeq(s, i + 1, Len(s))

\* DataFrame.nlargest(n, 'price_cv'): the n rows of largest price_cv, in
\* descending order, ties in table order (keep='first').
RECURSIVE NLargest(_, _)
NLargest(n, s) ==
    IF n <= 0 \/ s = <<>> THEN <<>>
    ELSE LET i == FirstMax(s) IN <<s[i]>> \o NLargest(n - 1, Without(s, i))

\* DataFrame.head(n): the first n rows in table order.
HeadRows(n, s) == SubSeq(s, 1, IF Len(s) < n THEN Len(s) ELSE n)

SkuList(s) == [i \in 1..Len(s) |-> s[i].SKU]

\* The profiles drawn for a product of run_analysis's table.
ProfilePool ==
    { [transactions |-> 40, price_cv |-> Num(30), price_unique |-> 6, price_range_pct |-> Num(60)],
      [transactions |-> 20, price_cv |-> Num(15), price_unique |-> 4, price_range_pct |-> Num(30)],
      [transactions |-> 12, price_cv |-> Num(25), price_unique |-> 5, price_range_pct |-> Num(50)],
      [transactions |-> 15, price_cv |-> Num(10), price_unique |-> 3, price_range_pct |-> Num(20)],
      [transactions |-> 10, price_cv |-> Num(5), price_unique |-> 2, price_range_pct |-> Num(8)],
      [transactions |-> 30, price_cv |-> Num(0), price_unique |-> 1, price_range_pct |-> Num(0)],
      [transactions |-> 1, price_cv |-> NaN, price_unique |-> 1, price_range_pct |-> Num(0)] }

WithSku(p, sku) ==
    [SKU |-> sku, transactions |-> p.transactions, price_cv |-> p.price_cv,
     price_unique |-> p.price_unique, price_range_pct |-> p.price_range_pct]

\* A profile table: one row per SKU, in SKU order (groupby sorts its keys).
ProfileTable(f) == [i \in 1..Len(f) |-> WithSku(f[i], SkuPool[i])]

MinTransactionsVals == {10, 20}
MaxProductsVals == {1, 2, 50}

SelectTier1 ==
    /\ pc = "scored"
    /\ variant = "final"
    /\ candidates' = SelectSeq(product_summary, LAMBDA p : PassesTier1(p, min_transactions))
    /\ pc' = "tier1"
    /\ UNCHANGED <<variant, product_summary, min_transactions, max_products,
                   skus_to_analyze, validateVars, estimateVars, loopVars, filterVars,
                   summaryVars>>

\* Tier 2 evaluated whatever tier 1 gave.
RelaxTier2Always ==
    /\ pc = "tier1"
    /\ candidates' = SelectSeq(product_summary, PassesTier2)
    /\ pc' = "tier2"
    /\ UNCHANGED <<variant, product_summary, min_transactions, max_products,
                   skus_to_analyze, validateVars, estimateVars, loopVars, filterVars,
                   summaryVars>>

\* run_analysis, lines 210-217.
RelaxTier2 ==
    /\ pc = "tier1"
    /\ IF Len(candidates) < Tier2Target
       THEN candidates' = SelectSeq(product_summary, PassesTier2)
       ELSE UNCHANGED candidates
    /\ pc' = "tier2"
    /\ UNCHANGED <<variant, product_summary, min_transactions, max_products,
                   skus_to_analyze, validateVars, estimateVars, loopVars, filterVars,
                   summaryVars>>

RelaxTier3 ==
    /\ pc = "tier2"
    /\ IF Len(candidates) < Tier3Target
       THEN candidates' = SelectSeq(product_summary, PassesTier3)
       ELSE UNCHANGED candidates
    /\ pc' = "tier3"
    /\ UNCHANGED <<variant, product_summary, min_transactions, max_products,
                   skus_to_analyze, validateVars, estimateVars, loopVars, filterVars,
                   summaryVars>>

\* run_analysis, lines 229-231: no candidate at any tier.
NoCandidates ==
    /\ pc = "tier3"
    /\ Len(candidates) = 0
    /\ pc' = "done"
    /\ UNCHANGED <<variant, selectVars, validateVars, estimateVars, loopVars, filterVars,
                   summaryVars>>

\* run_analysis, line 244.
RankCandidates ==
    /\ pc = "tier3"
    /\ Len(candidates) # 0
    /\ max_products' \in MaxProductsVals
    /\ skus_to_analyze' = SkuList(NLargest(max_products', candidates))
    /\ pc' = "ranked"
    /\ UNCHANGED <<variant, product_summary, min_transactions, candidates,
                   validateVars, estimateVars, loopVars, filterVars,
                   summaryVars>>

InitSelect ==
    /\ pc = "scored"
    /\ variant = "final"
    /\ \E n \in 0..MaxSkus : \E f \in [1..n -> ProfilePool] :
          product_summary = ProfileTable(f)
    /\ min_transactions \in MinTransactionsVals
    /\ candidates = <<>>
    /\ max_products = 0
    /\ skus_to_analyze = <<>>
    /\ IdleValidate
    /\ IdleSummary
    /\ IdleEstimate
    /\ IdleLoop
    /\ IdleFilter

NextSelect ==
    \/ SelectTier1
    \/ RelaxTier2
    \/ RelaxTier3
    \/ NoCandidates
    \/ RankCandidates

SpecSelect == InitSelect /\ [][NextSelect]_vars

\* Largest number of products in the profile table of
\* analisis_elasticidad_completo.
MaxSkusCompleto == 11

\* analisis_elasticidad_completo, lines 70-73 and 146.
MIN_TRANSACTIONS == 100
MIN_CV == 10
MIN_UNIQUE_PRICES == 5
MIN_PRICE_RANGE == 15
HeadCap == 10

\* analisis_elasticidad_completo, lines 75-80.
ViableCompleto(p) ==
    /\ p.transactions >= MIN_TRANSACTIONS
    /\ GeF(p.price_cv, MIN_CV)
    /\ p.price_unique >= MIN_UNIQUE_PRICES
    /\ GeF(p.price_range_pct, MIN_PRICE_RANGE)

ProfilePoolCompleto ==
    { [transactions |-> 150, price_cv |-> Num(12), price_unique |-> 6, price_range_pct |-> Num(40)],
      [transactions |-> 300, price_cv |-> Num(30), price_unique |-> 9, price_range_pct |-> Num(90)],
      [transactions |-> 50, price_cv |-> Num(20), price_unique |-> 5, price_range_pct |-> Num(60)] }

SelectViableCompleto ==
    /\ pc = "scored"
    /\ variant = "completo"
    /\ candidates' = SelectSeq(product_summary, ViableCompleto)
    /\ pc' = "viable"
    /\ UNCHANGED <<variant, product_summary, min_transactions, max_products,
                   skus_to_analyze, validateVars, estimateVars, loopVars, filterVars,
                   summaryVars>>

\* analisis_elasticidad_completo, lines 90-103.
NoViableCompleto ==
    /\ pc = "viable"
    /\ Len(candidates) = 0
    /\ pc' = "done"
    /\ UNCHANGED <<variant, selectVars, validateVars, estimateVars, loopVars, filterVars,
                   summaryVars>>

\* analisis_elasticidad_completo, line 146: viable_skus['SKU'].head(10).
HeadCompleto ==
    /\ pc = "viable"
    /\ Len(candidates) # 0
    /\ max_products' = HeadCap
    /\ skus_to_analyze' = SkuList(HeadRows(HeadCap, candidates))
    /\ pc' = "ranked"
    /\ UNCHANGED <<variant, product_summary, min_transactions, candidates,
                   validateVars, estimateVars, loopVars, filterVars,
                   summaryVars>>

InitSelectCompleto ==
    /\ pc = "scored"
    /\ variant = "completo"
    /\ \E n \in 0..MaxSkusCompleto : \E f \in [1..n -> ProfilePoolCompleto] :
          product_summary = ProfileTable(f)
    /\ min_transactions = MIN_TRANSACTIONS
    /\ candidates = <<>>
    /\ max_products = 0
    /\ skus_to_analyze = <<>>
    /\ IdleValidate
    /\ IdleSummary
    /\ IdleEstimate
    /\ IdleLoop
    /\ IdleFilter

NextSelectCompleto ==
    \/ SelectViableCompleto
    \/ NoViableCompleto
    \/ HeadCompleto

SpecSelectCompleto == InitSelectCompleto /\ [][NextSelectCompleto]_vars

(***************************************************************************)
(* Product summary: from a product's valid prices to its profile           *)
(***************************************************************************)

\* Largest number of products whose prices are drawn.
MaxProducts == 2

\* A product's valid prices are a bag: price |-> number of records.
RECURSIVE BagMoment(_, _, _)
BagMoment(b, S, k) ==
    IF S = {} THEN 0
    ELSE LET p == CHOOSE x \in S : TRUE
         IN  b[p] * (p ^ k) + BagMoment(b, S \ {p}, k)

BagCount(b) == BagMoment(b, DOMAIN b, 0)
BagSum(b) == BagMoment(b, DOMAIN b, 1)
BagSumSq(b) == BagMoment(b, DOMAIN b, 2)
BagPrices(b) == {p \in DOMAIN b : b[p] > 0}
BagMin(b) == CHOOSE p \in BagPrices(b) : \A q \in BagPrices(b) : p <= q
BagMax(b) == CHOOSE p \in BagPrices(b) : \A q \in BagPrices(b) : p >= q

\* n times the sum of squared deviations of the prices.
BagDev(b) == BagCount(b) * BagSumSq(b) - BagSum(b) * BagSum(b)

Isqrt(v) == CHOOSE k \in 0..1000 : k * k <= v /\ (k + 1) * (k + 1) > v

\* std / mean in hundredths, rounded down (the thresholds are whole
\* hundredths, so every >= against them is kept); the sample standard
\* deviation of a single record is NaN.
BagCv(b) ==
    LET n == BagCount(b)
        num == BagDev(b) * n
        den == (n - 1) * BagSum(b) * BagSum(b)
        h == (100 * num) \div den
        r == (100 * num) % den
    IN  IF n < 2 THEN NaN ELSE Num(Isqrt(100 * h + (100 * r) \div den))

\* (max - min) / mean in hundredths, rounded down.
BagRangePct(b) == Num((100 * (BagMax(b) - BagMin(b)) * BagCount(b)) \div BagSum(b))

\* run_analysis, lines 187-201, and analisis_elasticidad_completo, lines
\* 60-66: one row of the profile table.
SummaryRow(sku, b) ==
    [SKU |-> sku, transactions |-> BagCount(b), price_cv |-> BagCv(b),
     price_unique |-> Cardinality(BagPrices(b)), price_range_pct |-> BagRangePct(b)]

SummaryTable(bags) == [i \in 1..Len(bags) |-> SummaryRow(SkuPool[i], bags[i])]

\* The bags drawn for a product of run_analysis: 10 records at each of some
\* prices, and at most one price met once.
PriceVals == {2, 3, 4, 5}
PriceBags ==
    {b \in [PriceVals -> {0, 1, 10}] :
        /\ BagPrices(b) # {}
        /\ Cardinality({p \in PriceVals : b[p] = 1}) <= 1}

\* The bags drawn for a product of analisis_elasticidad_completo.
PriceValsCompleto == 1..5
PriceBagsCompleto ==
    {b \in [PriceValsCompleto -> {0, 25}] : BagPrices(b) # {}}

\* run_analysis, lines 187-201.
SummarizeProducts ==
    /\ pc = "grouped"
    /\ variant = "final"
    /\ product_summary' = SummaryTable(sku_prices)
    /\ pc' = "scored"
    /\ UNCHANGED <<variant, min_transactions, candidates, max_products, skus_to_analyze,
                   validateVars, estimateVars, loopVars, filterVars, summaryVars>>

\* analisis_elasticidad_completo, lines 60-67.
SummarizeCompleto ==
    /\ pc = "grouped"
    /\ variant = "completo"
    /\ product_summary' = SummaryTable(sku_prices)
    /\ pc' = "scored"
    /\ UNCHANGED <<variant, min_transactions, candidates, max_products, skus_to_analyze,
                   validateVars, estimateVars, loopVars, filterVars, summaryVars>>

InitSummary ==
    /\ pc = "grouped"
    /\ variant \in {"final", "completo"}
    /\ \E n \in 0..MaxProducts :
          IF variant = "final"
          THEN sku_prices \in [1..n -> PriceBags]
          ELSE sku_prices \in [1..n -> PriceBagsCompleto]
    /\ IF variant = "final"
       THEN min_transactions \in MinTransactionsVals
       ELSE min_transactions = MIN_TRANSACTIONS
    /\ segments = <<>>
    /\ product_summary = <<>>
    /\ candidates = <<>>
    /\ max_products = 0
    /\ skus_to_analyze = <<>>
    /\ IdleValidate
    /\ IdleEstimate
    /\ IdleLoop
    /\ IdleFilter

NextSummary ==
    \/ SummarizeProducts
    \/ SummarizeCompleto
    \/ NextSelect
    \/ NextSelectCompleto

SpecSummary == InitSummary /\ [][NextSummary]_vars

(***************************************************************************)
(* Claims about the Candidate Selector                                     *)
(***************************************************************************)

SkuSet(s) == {s[i].SKU : i \in 1..Len(s)}

\* C6: each relaxation tier is no stricter than the tier before it, so applying
\* a relaxation (tier 1 to tier 2, tier 2 to tier 3) never removes a product
\* from the candidate set.
C6_RelaxationNeverRemoves ==
    [][(pc \in {"tier1", "tier2"}) => SkuSet(candidates) \subseteq SkuSet(candidates')]_vars

\* The CV of a product of the profile table.
CvOf(sku) ==
    (CHOOSE p \in {product_summary[i] : i \in 1..Len(product_summary)} :
        p.SKU = sku).price_cv.v

Analysed == {skus_to_analyze[i] : i \in 1..Len(skus_to_analyze)}

\* C7: when there are more candidates than the cap N, exactly the N candidates
\* of highest CV are analysed, in descending CV order: no candidate of lower CV
\* is analysed while one of higher CV is skipped.
C7_TopCvCandidates ==
    (pc = "ranked" /\ Len(candidates) > max_products) =>
        /\ Analysed \subseteq SkuSet(candidates)
        /\ Cardinality(Analysed) = max_products
        /\ Len(skus_to_analyze) = max_products
        /\ \A a \in Analysed : \A b \in SkuSet(candidates) \ Analysed :
              CvOf(b) <= CvOf(a)
        /\ \A i, j \in 1..Len(skus_to_analyze) :
              i < j => CvOf(skus_to_analyze[i]) >= CvOf(skus_to_analyze[j])

\* The rows of the profile table that pass each tier.
Tier1Rows == SelectSeq(product_summary, LAMBDA p : PassesTier1(p, min_transactions))
Tier2Rows == SelectSeq(product_summary, PassesTier2)
Tier3Rows == SelectSeq(product_summary, PassesTier3)

\* C25: the tiers are tried in order and the first that meets its size
\* target is kept: after tier 1 the candidates are the tier-1 rows; tier 2
\* replaces them if and only if they are fewer than 5; tier 3 replaces the
\* then-current candidates if and only if those are fewer than 3.
C25_TierStoppingRule ==
    /\ (pc = "tier1" /\ variant = "final") => candidates = Tier1Rows
    /\ (pc = "tier2" /\ variant = "final") =>
           candidates = IF Len(Tier1Rows) < 5 THEN Tier2Rows ELSE Tier1Rows
    /\ (pc \in {"tier3", "ranked"} /\ variant = "final") =>
           candidates = IF Len(Tier1Rows) >= 5 THEN Tier1Rows
                        ELSE IF Len(Tier2Rows) >= 3 THEN Tier2Rows
                        ELSE Tier3Rows

C25_Witness ==
    /\ pc = "tier3"
    /\ variant = "final"
    /\ Len(Tier1Rows) = 5
    /\ Len(Tier2Rows) < 5
    /\ candidates = Tier1Rows

\* A product all of whose valid records carry one price.
ConstantPrice(i) == Cardinality(BagPrices(sku_prices[i])) = 1

\* C11: a product whose valid records all carry the same price (a single
\* record included) is a candidate at no tier and is never handed to the
\* per-candidate loop, whatever the other products are.
C11_ConstantPriceNeverCandidate ==
    \A i \in 1..Len(sku_prices) :
        ConstantPrice(i) =>
            /\ SkuPool[i] \notin SkuSet(candidates)
            /\ \A k \in 1..Len(skus_to_analyze) : skus_to_analyze[k] # SkuPool[i]

C11_Witness ==
    /\ pc = "ranked"
    /\ variant = "final"
    /\ \E i \in 1..Len(sku_prices) :
          ConstantPrice(i) /\ BagCount(sku_prices[i]) >= 10
    /\ Len(skus_to_analyze) >= 1


(***************************************************************************)
(* Elasticity Estimator                                                    *)
(***************************************************************************)

\* Largest number of buckets of an aggregated table.
MaxBuckets == 4

\* An exception in flight.
Raised == [raised |-> TRUE]

RECURSIVE Gcd(_, _)
Gcd(a, b) == IF b = 0 THEN a ELSE Gcd(b, a % b)

Abs(a) == IF a < 0 THEN 0 - a ELSE a

\* The fraction n/d (d # 0) in lowest terms with a positive denominator.
Rat(n, d) ==
    LET g == Gcd(Abs(n), Abs(d))
        sign == IF d < 0 THEN -1 ELSE 1
    IN  [n |-> sign * (n \div g), d |-> sign * (d \div g)]

\* np.log on one value, in base 2: exact on the powers of two the model draws.
Log2(v) == CHOOSE e \in 0..8 : 2 ^ e = v

LogF(x) ==
    CASE x.k = "nan" -> NaN
      [] x.k = "inf" -> PosInf
      [] x.k = "ninf" -> NaN
      [] x.k = "num" /\ x.v > 0 -> Num(Log2(x.v))
      [] x.k = "num" /\ x.v = 0 -> NegInf
      [] OTHER -> NaN

LogSeries(xs) == [i \in 1..Len(xs) |-> LogF(xs[i])]

RECURSIVE SumV(_)
SumV(xs) == IF xs = <<>> THEN 0 ELSE xs[1].v + SumV(Tail(xs))

RECURSIVE SumProd(_, _)
SumProd(xs, ys) ==
    IF xs = <<>> THEN 0 ELSE xs[1].v * ys[1].v + SumProd(Tail(xs), Tail(ys))

\* n times the sum of squared deviations of xs (cross deviations of xs, ys).
Dev(xs, ys) == Len(xs) * SumProd(xs, ys) - SumV(xs) * SumV(ys)

\* Series.std() == 0: NaN entries are skipped, the sample standard deviation
\* of fewer than two values or of a series holding an infinity is NaN.
StdIsZero(xs) ==
    LET present == SelectSeq(xs, NotNa)
    IN  /\ \A i \in 1..Len(present) : present[i].k = "num"
        /\ Len(present) >= 2
        /\ Dev(present, present) = 0

\* The regression of the prices on the quantities.
FitInverse(xs, ys) ==
    IF \E i \in 1..Len(xs) : xs[i].k # "num" \/ ys[i].k # "num" THEN Raised
    ELSE LET sxx == Dev(xs, xs)
             sxy == Dev(xs, ys)
             syy == Dev(ys, ys)
         IN  [elasticity |-> IF syy = 0 THEN Rat(0, 1) ELSE Rat(sxy, syy),
              r2 |-> IF syy = 0 THEN Rat(1, 1)
                     ELSE IF sxx = 0 THEN Rat(0, 1)
                     ELSE Rat(sxy * sxy, sxx * syy),
              segments |-> Len(xs)]

\* LinearRegression().fit(X, y), coef_[0] and score(X, y): raises ValueError on
\* a NaN or an infinity; otherwise the least-squares slope and R-squared.
Fit(xs, ys) ==
    IF \E i \in 1..Len(xs) : xs[i].k # "num" \/ ys[i].k # "num" THEN Raised
    ELSE LET sxx == Dev(xs, xs)
             sxy == Dev(xs, ys)
             syy == Dev(ys, ys)
         IN  [elasticity |-> IF sxx = 0 THEN Rat(0, 1) ELSE Rat(sxy, sxx),
              r2 |-> IF syy = 0 THEN Rat(1, 1)
                     ELSE IF sxx = 0 THEN Rat(0, 1)
                     ELSE Rat(sxy * sxy, sxx * syy),
              segments |-> Len(xs)]

\* A try block without its handler.
Uncaught(outcome) == outcome

\* except Exception: continue / return None.
Caught(outcome) == IF outcome = Raised THEN None ELSE outcome

Precios(agg) == [i \in 1..Len(agg) |-> agg[i].PRECIO]
Cantidades(agg) == [i \in 1..Len(agg) |-> agg[i].QTY_ENTREGADA]

\* The mask without its quantity half.
PositiveBucketsPriceOnly(agg) ==
    SelectSeq(agg, LAMBDA b : GtZero(b.PRECIO) /\ NotNa(b.PRECIO) /\ NotNa(b.QTY_ENTREGADA))

\* agg_data[(PRECIO > 0) & (QTY_ENTREGADA > 0)].dropna()
PositiveBuckets(agg) ==
    SelectSeq(agg, LAMBDA b : /\ GtZero(b.PRECIO) /\ GtZero(b.QTY_ENTREGADA)
                              /\ NotNa(b.PRECIO) /\ NotNa(b.QTY_ENTREGADA))

\* DataFrame.dropna()
DropNa(agg) == SelectSeq(agg, LAMBDA b : NotNa(b.PRECIO) /\ NotNa(b.QTY_ENTREGADA))

\* The strategy kept from 2 buckets on.
RobustMethodTwoBuckets(agg) ==
    LET valid == PositiveBuckets(agg)
        log_price == LogSeries(Precios(valid))
        log_qty == LogSeries(Cantidades(valid))
    IN  IF Len(valid) < 2 THEN None
        ELSE IF StdIsZero(log_price) \/ StdIsZero(log_qty) THEN None
        ELSE Caught(Fit(log_price, log_qty))

\* calculate_elasticity_robust, lines 87-121: one strategy's buckets.
RobustMethod(agg) ==
    LET valid == PositiveBuckets(agg)
        log_price == LogSeries(Precios(valid))
        log_qty == LogSeries(Cantidades(valid))
    IN  IF Len(valid) < 3 THEN None
        ELSE IF StdIsZero(log_price) \/ StdIsZero(log_qty) THEN None
        ELSE Caught(Fit(log_price, log_qty))

\* calculate_elasticity_for_product, lines 187-232.
CalculateElasticityForProduct(product_data) ==
    LET valid_data == PositiveBuckets(product_data)
    IN  IF Len(valid_data) < 3 THEN None
        ELSE IF StdIsZero(Precios(valid_data)) \/ StdIsZero(Cantidades(valid_data))
             THEN None
        ELSE Caught(Fit(LogSeries(Precios(valid_data)),
                        LogSeries(Cantidades(valid_data))))

\* calculate_elasticity_advanced, lines 76-109.
CalculateElasticityAdvanced(agg) ==
    LET kept == SelectSeq(DropNa(agg), LAMBDA b : b.n >= 2)
        log_price == LogSeries(Precios(kept))
        log_qty == LogSeries(Cantidades(kept))
    IN  IF Len(kept) < 3 \/ StdIsZero(Precios(kept)) THEN None
        ELSE IF \E i \in 1..Len(kept) : log_price[i] = NaN \/ log_qty[i] = NaN
             THEN None
        ELSE Caught(Fit(log_price, log_qty))

\* calculate_elasticity_batch, lines 163-208: one product of the loop.
CalculateElasticityBatch(agg) ==
    LET kept == DropNa(agg)
    IN  IF Len(kept) < 3 \/ StdIsZero(Precios(kept)) THEN None
        ELSE Caught(Fit(LogSeries(Precios(kept)), LogSeries(Cantidades(kept))))

\* The bucket aggregates drawn: mean price, total quantity, transaction count.
\* A bucket has at most one unusable aggregate.
PrecioVals == {Num(1), Num(2)}
QtyVals == {Num(1), Num(2)}
BadPrecioVals == {Num(0), PosInf}
BadQtyVals == {NaN, Num(0), Num(-1)}
CountVals == {2}

BucketVals ==
    [PRECIO : PrecioVals \cup BadPrecioVals, QTY_ENTREGADA : QtyVals, n : CountVals]
        \cup [PRECIO : PrecioVals, QTY_ENTREGADA : BadQtyVals, n : CountVals]

RobustEstimate ==
    /\ pc = "aggregated"
    /\ estimate' = RobustMethod(agg_data)
    /\ pc' = "estimated"
    /\ variant' = "final"
    /\ UNCHANGED <<agg_data, method_results, validateVars, selectVars, loopVars, filterVars,
                   summaryVars>>

ForProductEstimate ==
    /\ pc = "aggregated"
    /\ estimate' = CalculateElasticityForProduct(agg_data)
    /\ pc' = "estimated"
    /\ variant' = "completo"
    /\ UNCHANGED <<agg_data, method_results, validateVars, selectVars, loopVars, filterVars,
                   summaryVars>>

AdvancedEstimate ==
    /\ pc = "aggregated"
    /\ estimate' = CalculateElasticityAdvanced(agg_data)
    /\ pc' = "estimated"
    /\ variant' = "mejorado"
    /\ UNCHANGED <<agg_data, method_results, validateVars, selectVars, loopVars, filterVars,
                   summaryVars>>

BatchEstimate ==
    /\ pc = "aggregated"
    /\ estimate' = CalculateElasticityBatch(agg_data)
    /\ pc' = "estimated"
    /\ variant' = "batch"
    /\ UNCHANGED <<agg_data, method_results, validateVars, selectVars, loopVars, filterVars,
                   summaryVars>>

InitEstimate ==
    /\ pc = "aggregated"
    /\ variant = "none"
    /\ \E n \in 0..MaxBuckets : agg_data \in [1..n -> BucketVals]
    /\ estimate = None
    /\ method_results = <<>>
    /\ IdleValidate
    /\ IdleSummary
    /\ IdleSelect
    /\ IdleLoop
    /\ IdleFilter

NextEstimate ==
    \/ RobustEstimate
    \/ ForProductEstimate
    \/ AdvancedEstimate
    \/ BatchEstimate

SpecEstimate == InitEstimate /\ [][NextEstimate]_vars

(***************************************************************************)
(* Claims about the Elasticity Estimator                                   *)
(***************************************************************************)

Usable(b) ==
    /\ b.PRECIO.k = "num" /\ b.PRECIO.v > 0
    /\ b.QTY_ENTREGADA.k = "num" /\ b.QTY_ENTREGADA.v > 0

Missing(b) == b.PRECIO.k = "nan" \/ b.QTY_ENTREGADA.k = "nan"

Infinite(b) == b.PRECIO.k \in {"inf", "ninf"} \/ b.QTY_ENTREGADA.k \in {"inf", "ninf"}

Buckets(agg) == {agg[i] : i \in 1..Len(agg)}

Constant(xs) == \A i, j \in 1..Len(xs) : xs[i] = xs[j]

\* C9: in every estimator variant a product whose bucket-level price series,
\* or whose bucket-level quantity series, has zero variance yields no
\* estimate.  Stated on tables whose buckets are all usable, so that the
\* series is the whole table in every variant.
C9_DegenerateNoResult ==
    (/\ pc = "estimated"
     /\ \A b \in Buckets(agg_data) : Usable(b) /\ b.n >= 2
     /\ Constant(Precios(agg_data)) \/ Constant(Cantidades(agg_data)))
        => estimate = None

UsableBuckets(agg) == SelectSeq(agg, Usable)

\* Buckets that survive the positive-mask of robust / for_product.
PassesMask(b) == ~Missing(b) /\ (Usable(b) \/ (Infinite(b) /\ GtZero(b.PRECIO) /\ GtZero(b.QTY_ENTREGADA)))

RegressionBuckets ==
    CASE variant \in {"final", "completo"} ->
             SelectSeq(agg_data, LAMBDA b : GtZero(b.PRECIO) /\ GtZero(b.QTY_ENTREGADA))
      [] variant = "mejorado" ->
             SelectSeq(agg_data, LAMBDA b : ~Missing(b) /\ b.n >= 2)
      [] variant = "batch" ->
             SelectSeq(agg_data, LAMBDA b : ~Missing(b))

\* C19: every estimator variant returns no result or an estimate fitted on at
\* least 3 non-empty buckets whose mean prices are not all equal, and the
\* segment count it reports is the number of buckets in the regression.
C19_MinimumBuckets ==
    (pc = "estimated" /\ estimate # None) =>
        /\ estimate.segments >= 3
        /\ estimate.segments = Len(RegressionBuckets)
        /\ \A i \in 1..Len(RegressionBuckets) : RegressionBuckets[i].n >= 1
        /\ \E i, j \in 1..Len(RegressionBuckets) :
               RegressionBuckets[i].PRECIO # RegressionBuckets[j].PRECIO

C19_Witness ==
    /\ pc = "estimated"
    /\ variant = "final"
    /\ Len(agg_data) = 4
    /\ estimate # None
    /\ estimate.segments = 3
    /\ \E b \in Buckets(agg_data) : b.PRECIO = Num(0)

\* Bucket tables with prices 4^j and quantities 2^i: the logs are integers,
\* and quantity = C * price^(-1.5) is met by (1, 64), (4, 8), (16, 1).
\* A bucket aggregates 1 or 2 transactions.
PowerLawBuckets ==
    [PRECIO : {Num(1), Num(4), Num(16)},
     QTY_ENTREGADA : {Num(1), Num(2), Num(8), Num(64)},
     n : {1, 2}]

\* Largest number of buckets of such a table.
MaxPowerLawBuckets == 3

InitRegression ==
    /\ pc = "aggregated"
    /\ variant = "none"
    /\ \E n \in 0..MaxPowerLawBuckets : agg_data \in [1..n -> PowerLawBuckets]
    /\ estimate = None
    /\ method_results = <<>>
    /\ IdleValidate
    /\ IdleSummary
    /\ IdleSelect
    /\ IdleLoop
    /\ IdleFilter

SpecRegression == InitRegression /\ [][NextEstimate]_vars

\* quantity = C * price^(-1.5) on every bucket: quantity^2 * price^3 is the
\* same on all of them.
PowerLaw(agg) ==
    \A i, j \in 1..Len(agg) :
        agg[i].QTY_ENTREGADA.v * agg[i].QTY_ENTREGADA.v
              * agg[i].PRECIO.v * agg[i].PRECIO.v * agg[i].PRECIO.v
          = agg[j].QTY_ENTREGADA.v * agg[j].QTY_ENTREGADA.v
              * agg[j].PRECIO.v * agg[j].PRECIO.v * agg[j].PRECIO.v

DistinctBucketPrices(agg) ==
    \A i, j \in 1..Len(agg) : agg[i].PRECIO = agg[j].PRECIO => i = j

\* The slope b solves the normal equations of least squares of ys on xs
\* with the intercept (sum ys - b * sum xs) / n.
SolvesNormalEquations(b, xs, ys) ==
    Len(xs) * b.d * SumProd(xs, ys)
        - (b.d * SumV(ys) - b.n * SumV(xs)) * SumV(xs)
        - Len(xs) * b.n * SumProd(xs, xs) = 0

\* C22: when the buckets a variant regresses on are at least 3, have
\* distinct prices and meet quantity = C * price^(-1.5), the variant returns
\* elasticity -3/2 and R-squared 1; and every returned elasticity is the
\* least-squares slope of ln(quantity) on ln(price) over those buckets.
C22_RegressionSanity ==
    pc = "estimated" =>
        /\ (/\ Len(RegressionBuckets) >= 3
            /\ DistinctBucketPrices(RegressionBuckets)
            /\ PowerLaw(RegressionBuckets)) =>
              /\ estimate # None
              /\ estimate.elasticity = Rat(-3, 2)
              /\ estimate.r2 = Rat(1, 1)
        /\ estimate # None =>
              SolvesNormalEquations(estimate.elasticity,
                                    LogSeries(Precios(RegressionBuckets)),
                                    LogSeries(Cantidades(RegressionBuckets)))

C22_Witness ==
    /\ pc = "estimated"
    /\ variant = "final"
    /\ Len(agg_data) = 3
    /\ DistinctBucketPrices(agg_data)
    /\ PowerLaw(agg_data)
    /\ agg_data[1].QTY_ENTREGADA = Num(8)
    /\ estimate # None
    /\ estimate.elasticity = Rat(-3, 2)

\* C24: every bucket in the regression of a returned estimate aggregates at
\* least 2 transactions (smaller buckets are dropped before the 3-bucket
\* check), in every estimator variant.
C24_SmallBucketsDropped ==
    (pc = "estimated" /\ estimate # None) =>
        \A i \in 1..Len(RegressionBuckets) : RegressionBuckets[i].n >= 2

\* The same for calculate_elasticity_advanced alone.
C24_SmallBucketsDroppedAdvanced ==
    variant = "mejorado" => C24_SmallBucketsDropped


(***************************************************************************)
(* Result Filter & Classifier                                              *)
(***************************************************************************)

\* Largest number of candidates whose estimates reach the Result Filter.
MaxEst == 2

\* Elasticities (units of 0.1) and R-squared values (units of 0.01) drawn.
EVals == {-250, -200, -100, -50, -20, -10, -5, -3, 0, 8}
RVals == {3, 5, 30, 40}
MinR2Vals == {1, 30}

\* ElasticityAnalyzer.__init__ default min_transactions.
DefaultMinTransactions == 20

EstimateVals == [elasticity : EVals, r2 : RVals, segments : {3}]

\* The row labelled with the first product of the pool, not with its own.
AnalyzeProductFirstSku(sku, n_transactions, elasticity_result, min_trans, minr2) ==
    IF n_transactions < min_trans THEN None
    ELSE IF elasticity_result = Raised THEN Raised
    ELSE IF elasticity_result = None \/ elasticity_result.r2 < minr2 THEN None
    ELSE [SKU |-> SkuPool[1],
          elasticity |-> elasticity_result.elasticity,
          r2 |-> elasticity_result.r2,
          segments |-> elasticity_result.segments,
          transactions |-> n_transactions]

\* The transaction minimum of the most relaxed tier instead of the analyzer's.
AnalyzeProductTierMinimum(sku, n_transactions, elasticity_result, min_trans, minr2) ==
    IF n_transactions < 10 THEN None
    ELSE IF elasticity_result = Raised THEN Raised
    ELSE IF elasticity_result = None \/ elasticity_result.r2 < minr2 THEN None
    ELSE [SKU |-> sku,
          elasticity |-> elasticity_result.elasticity,
          r2 |-> elasticity_result.r2,
          segments |-> elasticity_result.segments,
          transactions |-> n_transactions]

\* analyze_product: the two early returns and the row it builds.
AnalyzeProduct(sku, n_transactions, elasticity_result, min_trans, minr2) ==
    IF n_transactions < min_trans THEN None
    ELSE IF elasticity_result = Raised THEN Raised
    ELSE IF elasticity_result = None \/ elasticity_result.r2 < minr2 THEN None
    ELSE [SKU |-> sku,
          elasticity |-> elasticity_result.elasticity,
          r2 |-> elasticity_result.r2,
          segments |-> elasticity_result.segments,
          transactions |-> n_transactions]

\* The rows of a list that are not None, in order (results.append in a loop).
RECURSIVE NotNone(_)
NotNone(s) ==
    IF s = <<>> THEN <<>>
    ELSE IF Head(s) = None THEN NotNone(Tail(s))
    ELSE <<Head(s)>> \o NotNone(Tail(s))

\* The ladder with inclusive comparisons: a boundary falls in the milder category.
CategorizeFinalInclusive(e) ==
    IF e >= -5 THEN "Muy Inelastico"
    ELSE IF e >= -10 THEN "Inelastico"
    ELSE IF e >= -20 THEN "Elastico"
    ELSE "Muy Elastico"

\* categorize_elasticity of run_analysis (e in units of 0.1).
CategorizeFinal(e) ==
    IF e > -5 THEN "Muy Inelastico"
    ELSE IF e > -10 THEN "Inelastico"
    ELSE IF e > -20 THEN "Elastico"
    ELSE "Muy Elastico"

\* categorize_elasticity of calcular_elasticidades.
CategorizeCompleto(e) ==
    IF e > -5 THEN "Inelastico"
    ELSE IF e > -10 THEN "Poco Elastico"
    ELSE IF e > -20 THEN "Elastico"
    ELSE "Muy Elastico"

\* The inline ladder of calculate_elasticity_batch.
CategorizeBatch(e) ==
    IF e < 0 THEN
        (IF e > -5 THEN "Inelastico"
         ELSE IF e > -10 THEN "Poco Elastico"
         ELSE IF e > -20 THEN "Elastico"
         ELSE "Muy Elastico")
    ELSE "Anomalo (positivo)"

\* The category each variant's code gives an elasticity.
Categorize(v, e) ==
    CASE v = "final" -> CategorizeFinal(e)
      [] v = "completo" -> CategorizeCompleto(e)
      [] v = "batch" -> CategorizeBatch(e)

\* df['category'] = df['elasticity'].apply(categorize_elasticity)
WithCategory(s, v) ==
    [i \in 1..Len(s) |->
        [SKU |-> s[i].SKU, elasticity |-> s[i].elasticity, r2 |-> s[i].r2,
         segments |-> s[i].segments, category |-> Categorize(v, s[i].elasticity)]]

\* run_analysis, lines 259-286: the permissive filter, its fall-back to all the
\* computed results, and the preference for negative elasticities when any exist.
FinalPreferNegative(results_df) ==
    LET passed == SelectSeq(results_df,
                     LAMBDA r : r.elasticity > -200 /\ r.elasticity < 200 /\ r.r2 >= 5)
        negative_elasticity == SelectSeq(passed, LAMBDA r : r.elasticity < 0)
    IN  IF Len(passed) = 0 THEN results_df
        ELSE IF Len(negative_elasticity) > 0 THEN negative_elasticity
        ELSE passed

\* The results list built by run_analysis's loop over skus_to_analyze.
FinalResults(ests, minr2) ==
    NotNone([i \in 1..Len(ests) |->
        AnalyzeProduct(SkuPool[i], DefaultMinTransactions, ests[i],
                       DefaultMinTransactions, minr2)])

\* run_analysis from the loop's results to the returned table.
RunAnalysisFilter ==
    /\ pc = "estimated"
    /\ LET results_df == FinalResults(estimates, min_r2)
       IN  IF results_df = <<>>
           THEN /\ valid_results' = <<>>
                /\ UNCHANGED self_results
           ELSE /\ valid_results' = WithCategory(FinalPreferNegative(results_df), "final")
                /\ self_results' = valid_results'
    /\ pc' = "done"
    /\ variant' = "final"
    /\ UNCHANGED <<estimates, min_r2, validateVars, selectVars, estimateVars, loopVars,
                   summaryVars>>

\* calcular_elasticidades, lines 234-297: the filter and the classification.
CalcularElasticidadesFilter(elasticity_results) ==
    LET valid_elasticities ==
            SelectSeq(elasticity_results,
                   LAMBDA r : r.r2 > 30 /\ r.elasticity < 0 /\ r.elasticity > -50
                              /\ r.segments >= 3)
    IN  IF Len(elasticity_results) = 0 THEN <<>>
        ELSE IF Len(valid_elasticities) > 0
             THEN WithCategory(valid_elasticities, "completo")
             ELSE <<>>

\* A row as calculate_elasticity_for_product, analyze_product_elasticity and
\* calculate_elasticity_batch build it from an estimate.
EstimateRows(ests) ==
    NotNone([i \in 1..Len(ests) |->
        IF ests[i] = None THEN None
        ELSE [SKU |-> SkuPool[i], elasticity |-> ests[i].elasticity,
              r2 |-> ests[i].r2, segments |-> ests[i].segments]])

CalcularElasticidades ==
    /\ pc = "estimated"
    /\ valid_results' = CalcularElasticidadesFilter(EstimateRows(estimates))
    /\ pc' = "done"
    /\ variant' = "completo"
    /\ UNCHANGED <<estimates, min_r2, self_results, validateVars, selectVars, estimateVars, loopVars,
                   summaryVars>>

\* test_elasticidad_mejorado.py, lines 237-247: the improved script's filter.
MejoradoFilter(results_df) ==
    SelectSeq(results_df,
           LAMBDA r : r.r2 >= 40 /\ r.elasticity < 0 /\ r.elasticity > -50
                      /\ r.segments >= 3)

MejoradoResults ==
    /\ pc = "estimated"
    /\ valid_results' = MejoradoFilter(EstimateRows(estimates))
    /\ pc' = "done"
    /\ variant' = "mejorado"
    /\ UNCHANGED <<estimates, min_r2, self_results, validateVars, selectVars, estimateVars, loopVars,
                   summaryVars>>

\* test_elasticidad.py, lines 221-227: the batch script's filter; the rows
\* carry the category calculate_elasticity_batch gave them (lines 183-205).
BatchFilter(elasticity_results) ==
    SelectSeq(elasticity_results,
           LAMBDA r : r.r2 > 30 /\ r.elasticity < 0 /\ r.elasticity > -100)

BatchResults ==
    /\ pc = "estimated"
    /\ valid_results' = BatchFilter(WithCategory(EstimateRows(estimates), "batch"))
    /\ pc' = "done"
    /\ variant' = "batch"
    /\ UNCHANGED <<estimates, min_r2, self_results, validateVars, selectVars, estimateVars, loopVars,
                   summaryVars>>

InitFilter ==
    /\ pc = "estimated"
    /\ variant = "none"
    /\ \E n \in 0..MaxEst : estimates \in [1..n -> EstimateVals \cup {None}]
    /\ min_r2 \in MinR2Vals
    /\ valid_results = <<>>
    /\ self_results = <<>>
    /\ IdleValidate
    /\ IdleSummary
    /\ IdleSelect
    /\ IdleEstimate
    /\ IdleLoop

NextFilter ==
    \/ RunAnalysisFilter
    \/ CalcularElasticidades
    \/ MejoradoResults
    \/ BatchResults

SpecFilter == InitFilter /\ [][NextFilter]_vars

(***************************************************************************)
(* Claims about the Result Filter & Classifier (checked under SpecFilter)  *)
(***************************************************************************)

\* The four ordered categories of each variant that classifies its rows.
Categories(v) ==
    IF v = "final" THEN <<"Muy Inelastico", "Inelastico", "Elastico", "Muy Elastico">>
    ELSE <<"Inelastico", "Poco Elastico", "Elastico", "Muy Elastico">>

\* The ladder as the specification states it, by intervals (units of 0.1).
InFirst(e) == e > -5
InSecond(e) == -10 < e /\ e <= -5
InThird(e) == -20 < e /\ e <= -10
InFourth(e) == e <= -20

LadderLabel(v, e) ==
    CASE InFirst(e) -> Categories(v)[1]
      [] InSecond(e) -> Categories(v)[2]
      [] InThird(e) -> Categories(v)[3]
      [] InFourth(e) -> Categories(v)[4]

\* C2: categorize_elasticity is total and puts every elasticity in exactly one
\* of the four ordered categories (e > -0.5; -1.0 < e <= -0.5; -2.0 < e <= -1.0;
\* e <= -2.0), the boundaries -0.5, -1.0, -2.0 falling in the second, third and
\* fourth; and every row of the final table of run_analysis and of
\* calcular_elasticidades carries the ladder's category for its own elasticity.
C2_ClassificationLadder ==
    /\ \A e \in EVals :
          /\ Cardinality({k \in 1..4 :
                 \/ (k = 1 /\ InFirst(e)) \/ (k = 2 /\ InSecond(e))
                 \/ (k = 3 /\ InThird(e)) \/ (k = 4 /\ InFourth(e))}) = 1
          /\ CategorizeFinal(e) = LadderLabel("final", e)
          /\ CategorizeCompleto(e) = LadderLabel("completo", e)
    /\ (pc = "done" /\ variant \in {"final", "completo"}) =>
          \A r \in Rows(valid_results) : r.category = LadderLabel(variant, r.elasticity)

\* A final table of run_analysis holding the boundary values -0.5 and -2.0.
C2_Witness ==
    /\ pc = "done" /\ variant = "final"
    /\ \E r \in Rows(valid_results) : r.elasticity = -5 /\ r.category = "Inelastico"
    /\ \E r \in Rows(valid_results) : r.elasticity = -20 /\ r.category = "Muy Elastico"

\* C3: no estimate with elasticity >= 0 is in the final table (run_analysis,
\* calcular_elasticidades, the batch filter) under one of the four normal labels.
C3_PositiveNeverNormal ==
    (pc = "done" /\ variant \in {"final", "completo", "batch"}) =>
        \A r \in Rows(valid_results) :
            r.elasticity >= 0 =>
                r.category \notin {Categories(variant)[k] : k \in 1..4}

\* The lower elasticity bound of each variant's Result Filter (units of 0.1).
LowerBound(v) ==
    CASE v = "final" -> -200
      [] v = "completo" -> -50
      [] v = "mejorado" -> -50
      [] v = "batch" -> -100

\* C4: every row of the final table has elasticity strictly greater than the
\* variant's lower bound (-20, -5, -5, -10).
C4_BoundedElasticity ==
    pc = "done" =>
        \A r \in Rows(valid_results) : r.elasticity > LowerBound(variant)

\* The configured minimum R-squared of each variant (units of 0.01).
ConfiguredMinR2(v) ==
    CASE v = "final" -> min_r2
      [] v = "completo" -> 30
      [] v = "mejorado" -> 40

\* C5: among the estimates with in-range elasticity (negative and above the
\* variant's lower bound) the Result Filter keeps exactly those with
\* R-squared >= the configured minimum; every row of the final table has
\* R-squared >= the minimum, and an estimate at the minimum exactly is kept.
C5_RSquaredGate ==
    (pc = "done" /\ variant \in {"final", "completo", "mejorado"}) =>
        /\ \A r \in Rows(valid_results) : r.r2 >= ConfiguredMinR2(variant)
        /\ \A i \in 1..Len(estimates) :
              (/\ estimates[i] # None
               /\ estimates[i].elasticity < 0
               /\ estimates[i].elasticity > LowerBound(variant))
              => ((\E r \in Rows(valid_results) : r.SKU = SkuPool[i])
                    <=> estimates[i].r2 >= ConfiguredMinR2(variant))

\* C15: the table returned by run_analysis and by calcular_elasticidades is
\* in ascending elasticity order: of two consecutive rows the earlier one's
\* elasticity is <= the later one's.
C15_AscendingElasticity ==
    (pc = "done" /\ variant \in {"final", "completo"}) =>
        \A i \in 1..(Len(valid_results) - 1) :
            valid_results[i].elasticity <= valid_results[i + 1].elasticity


(***************************************************************************)
(* Several runs on one analyzer                                            *)
(*                                                                         *)
(* __init__ sets self.results = [] once; every later run_analysis call on  *)
(* the same instance starts from whatever the previous call left there.    *)
(***************************************************************************)

\* The estimates a later call's loop may obtain.
RepeatVals == [elasticity : {-250, -10, 8}, r2 : {3, 30}, segments : {3}]

\* One more run_analysis call on the same instance, from the estimates its
\* loop obtains on the new table to the returned table: both early returns
\* (lines 229-231 with no candidate, 255-257 with no computed row) leave
\* before the assignment of line 300.
RunAnalysisAgain ==
    /\ pc = "done"
    /\ variant = "final"
    /\ \E n \in 0..MaxEst : estimates' \in [1..n -> RepeatVals \cup {None}]
    /\ LET results_df == FinalResults(estimates', min_r2)
       IN  IF results_df = <<>>
           THEN /\ valid_results' = <<>>
                /\ UNCHANGED self_results
           ELSE /\ valid_results' = WithCategory(FinalPreferNegative(results_df), "final")
                /\ self_results' = valid_results'
    /\ UNCHANGED <<pc, variant, min_r2, validateVars, selectVars, estimateVars,
                   loopVars, summaryVars>>

NextRepeat ==
    \/ RunAnalysisFilter
    \/ RunAnalysisAgain

SpecRepeat == InitFilter /\ [][NextRepeat]_vars

\* C27: after any sequence of run_analysis calls on one analyzer, the stored
\* results equal the table the most recent call returned, an empty table
\* included.
C27_StoredResultsTrackLatestRun ==
    (pc = "done" /\ variant = "final") => self_results = valid_results


(***************************************************************************)
(* Per-candidate loop                                                      *)
(***************************************************************************)

\* Largest number of candidates handed to the loop.
MaxCand == 2

\* What one segmentation strategy of calculate_elasticity_robust does on a
\* product: raise, skip (no segments, under 3 buckets, no variance), or fit.
MethodFit ==
    <<[elasticity |-> -12, r2 |-> 50, segments |-> 5, method |-> "dynamic"],
      [elasticity |-> -8, r2 |-> 70, segments |-> 4, method |-> "percentile"],
      [elasticity |-> -30, r2 |-> 50, segments |-> 3, method |-> "equal_width"]>>

MethodOutcomes == {m \in [1..3 -> {Raised, None} \cup {MethodFit[k] : k \in 1..3}] :
                      \A k \in 1..3 : m[k] \in {Raised, None, MethodFit[k]}}

\* calculate_elasticity_robust, lines 66-123: the loop over the strategies.
RECURSIVE RobustBest(_, _, _)
RobustBest(outcomes, best_result, best_r2) ==
    IF outcomes = <<>> THEN best_result
    ELSE LET o == Caught(Head(outcomes))
         IN  IF o = Raised THEN Raised
             ELSE IF o = None THEN RobustBest(Tail(outcomes), best_result, best_r2)
             ELSE IF o.r2 > best_r2
                  THEN RobustBest(Tail(outcomes), o, o.r2)
                  ELSE RobustBest(Tail(outcomes), best_result, best_r2)

\* best_r2 carried over from the row appended last instead of reset to -1.
CalculateElasticityRobustCarried(outcomes) ==
    RobustBest(outcomes, None, IF results = <<>> THEN -100 ELSE results[Len(results)].r2)

\* best_r2 starts at -1 (units of 0.01).
CalculateElasticityRobust(outcomes) == RobustBest(outcomes, None, -100)

TransactionVals == {12, 25}
LoopMinR2Vals == {30, 60}

FinalSkuData == [transactions : TransactionVals, methods : MethodOutcomes]

\* run_analysis, lines 247-253: one iteration.
AnalyzeStep ==
    /\ pc = "looping"
    /\ variant = "final"
    /\ loop_i <= Len(skus_to_analyze)
    /\ LET d == sku_data[loop_i]
           result == AnalyzeProduct(skus_to_analyze[loop_i], d.transactions,
                                    CalculateElasticityRobust(d.methods),
                                    min_transactions, min_r2)
       IN  IF result = Raised
           THEN /\ pc' = "aborted"
                /\ UNCHANGED <<loop_i, results>>
           ELSE /\ results' = IF result # None THEN Append(results, result) ELSE results
                /\ loop_i' = loop_i + 1
                /\ pc' = pc
    /\ UNCHANGED <<variant, sku_data, aggregated_data, validateVars, selectVars,
                   estimateVars, filterVars,
                   summaryVars>>

\* The bucket tables a viable product of analisis_elasticidad_completo gives.
Bucket(p, q) == [PRECIO |-> Num(p), QTY_ENTREGADA |-> Num(q), n |-> 2]

AggPool ==
    {<<Bucket(1, 2), Bucket(2, 1)>>,
     <<Bucket(2, 4), Bucket(2, 2), Bucket(2, 1)>>,
     <<Bucket(1, 2), Bucket(2, 2), Bucket(4, 2)>>,
     <<Bucket(1, 4), Bucket(2, 2), Bucket(4, 1)>>,
     <<Bucket(1, 4), Bucket(2, 4), Bucket(4, 1), Bucket(4, 2)>>}

\* Series.std() > 0
StdIsPositive(xs) ==
    LET present == SelectSeq(xs, NotNa)
    IN  /\ \A i \in 1..Len(present) : present[i].k = "num"
        /\ Len(present) >= 2
        /\ Dev(present, present) > 0

\* analisis_elasticidad_completo, lines 146-162: one iteration.
AggregateStep ==
    /\ pc = "looping"
    /\ variant = "completo"
    /\ loop_i <= Len(skus_to_analyze)
    /\ LET sku_agg == sku_data[loop_i]
       IN  aggregated_data' =
               IF Len(sku_agg) >= 3 /\ StdIsPositive(Precios(sku_agg))
               THEN Append(aggregated_data,
                           [SKU |-> skus_to_analyze[loop_i], agg |-> sku_agg])
               ELSE aggregated_data
    /\ loop_i' = loop_i + 1
    /\ UNCHANGED <<pc, variant, sku_data, results, validateVars, selectVars,
                   estimateVars, filterVars,
                   summaryVars>>

\* calcular_elasticidades, lines 234-240, entered when aggregated_data is not
\* empty (line 164): the loop over the products of elasticity_data.
CalcularLoop(elasticity_data) ==
    NotNone([i \in 1..Len(elasticity_data) |->
        LET result == CalculateElasticityForProduct(elasticity_data[i].agg)
        IN  IF result = None THEN None
            ELSE [SKU |-> elasticity_data[i].SKU,
                  Elasticidad |-> result.elasticity,
                  R2 |-> result.r2,
                  Observaciones |-> result.segments]])

CalcularStep ==
    /\ pc = "looping"
    /\ variant = "completo"
    /\ loop_i > Len(skus_to_analyze)
    /\ results' = CalcularLoop(aggregated_data)
    /\ pc' = "looped"
    /\ UNCHANGED <<variant, sku_data, loop_i, aggregated_data, validateVars,
                   selectVars, estimateVars, filterVars,
                   summaryVars>>

\* run_analysis leaves its loop.
LoopDone ==
    /\ pc = "looping"
    /\ variant = "final"
    /\ loop_i > Len(skus_to_analyze)
    /\ pc' = "looped"
    /\ UNCHANGED <<variant, loopVars, validateVars, selectVars, estimateVars, filterVars,
                   summaryVars>>

InitLoop ==
    /\ pc = "looping"
    /\ variant \in {"final", "completo"}
    /\ \E n \in 0..MaxCand :
        /\ skus_to_analyze = SubSeq(SkuPool, 1, n)
        /\ IF variant = "final"
           THEN sku_data \in [1..n -> FinalSkuData]
           ELSE sku_data \in [1..n -> AggPool]
    /\ min_transactions = DefaultMinTransactions
    /\ min_r2 \in LoopMinR2Vals
    /\ loop_i = 1
    /\ aggregated_data = <<>>
    /\ results = <<>>
    /\ product_summary = <<>> /\ candidates = <<>> /\ max_products = 0
    /\ estimates = <<>> /\ valid_results = <<>> /\ self_results = <<>>
    /\ IdleValidate
    /\ IdleSummary
    /\ IdleEstimate

NextLoop ==
    \/ AnalyzeStep
    \/ LoopDone
    \/ AggregateStep
    \/ CalcularStep

SpecLoop == InitLoop /\ [][NextLoop]_vars

(***************************************************************************)
(* Claims about the per-candidate loop                                     *)
(***************************************************************************)

\* What the run returns for candidate j when it is the only candidate.
AloneRows(j) ==
    IF variant = "final"
    THEN NotNone(<<AnalyzeProduct(skus_to_analyze[j], sku_data[j].transactions,
                                  CalculateElasticityRobust(sku_data[j].methods),
                                  min_transactions, min_r2)>>)
    ELSE IF Len(sku_data[j]) >= 3 /\ StdIsPositive(Precios(sku_data[j]))
         THEN CalcularLoop(<<[SKU |-> skus_to_analyze[j], agg |-> sku_data[j]]>>)
         ELSE <<>>

RECURSIVE AloneRowsUpTo(_)
AloneRowsUpTo(j) == IF j = 0 THEN <<>> ELSE AloneRowsUpTo(j - 1) \o AloneRows(j)

\* A candidate of run_analysis none of whose strategies gives a fit.
EveryMethodFails(j) ==
    \A m \in 1..3 : sku_data[j].methods[m] \in {Raised, None}

\* C8: in the per-candidate loop a candidate whose segmentation or regression
\* fails contributes no row and does not abort the run; every other candidate
\* is processed and yields exactly the row it yields when it is alone.
C8_FailureIsolation ==
    /\ pc # "aborted"
    /\ (pc = "looping" /\ variant = "final") =>
           results = AloneRowsUpTo(loop_i - 1)
    /\ pc = "looped" =>
        /\ results = AloneRowsUpTo(Len(skus_to_analyze))
        /\ \A j \in 1..Len(skus_to_analyze) :
               (variant = "final" /\ EveryMethodFails(j)) =>
                   \A r \in 1..Len(results) : results[r].SKU # skus_to_analyze[j]

C8_Witness ==
    /\ pc = "looped"
    /\ variant = "final"
    /\ Len(skus_to_analyze) = 2
    /\ sku_data[1].methods = <<Raised, Raised, Raised>>
    /\ Len(results) = 1
    /\ results[1].SKU = skus_to_analyze[2]


\* The rows of the loop's output for candidate i, without the identifier.
StripSku(row) == [f \in (DOMAIN row) \ {"SKU"} |-> row[f]]

EstimateRowsOf(i) ==
    {StripSku(results[r]) : r \in {q \in 1..Len(results) :
                                      results[q].SKU = skus_to_analyze[i]}}

RatLt(a, n, d) == a.n * d < n * a.d
RatGt(a, n, d) == a.n * d > n * a.d

\* run_analysis, lines 255-302, on the loop's results.
FilterFinal ==
    /\ pc = "looped"
    /\ variant = "final"
    /\ IF results = <<>>
       THEN /\ valid_results' = <<>>
            /\ UNCHANGED self_results
       ELSE /\ valid_results' = WithCategory(FinalPreferNegative(results), "final")
            /\ self_results' = valid_results'
    /\ pc' = "done"
    /\ UNCHANGED <<variant, estimates, min_r2, loopVars, validateVars, selectVars,
                   estimateVars, summaryVars>>

\* calcular_elasticidades, lines 242-297, on the loop's results.
FilterCompleto ==
    /\ pc = "looped"
    /\ variant = "completo"
    /\ LET valid_elasticities ==
               SelectSeq(results,
                   LAMBDA r : /\ RatGt(r.R2, 3, 10)
                              /\ RatLt(r.Elasticidad, 0, 1)
                              /\ RatGt(r.Elasticidad, -5, 1)
                              /\ r.Observaciones >= 3)
       IN  valid_results' =
               [i \in 1..Len(valid_elasticities) |->
                   LET r == valid_elasticities[i]
                   IN  [SKU |-> r.SKU, Elasticidad |-> r.Elasticidad, R2 |-> r.R2,
                        Observaciones |-> r.Observaciones,
                        Categoria |->
                            IF RatGt(r.Elasticidad, -1, 2) THEN "Inelastico"
                            ELSE IF RatGt(r.Elasticidad, -1, 1) THEN "Poco Elastico"
                            ELSE IF RatGt(r.Elasticidad, -2, 1) THEN "Elastico"
                            ELSE "Muy Elastico"]]
    /\ pc' = "done"
    /\ UNCHANGED <<variant, estimates, min_r2, self_results, loopVars, validateVars,
                   selectVars, estimateVars, summaryVars>>

NextRun ==
    \/ NextLoop
    \/ FilterFinal
    \/ FilterCompleto

SpecRun == InitLoop /\ [][NextRun]_vars

\* The product identifiers of a table's rows, in order.
SkuColumn(table) == [i \in 1..Len(table) |-> table[i].SKU]

NoDuplicate(s) == \A i, j \in 1..Len(s) : s[i] = s[j] => i = j

\* C18: the loop's results and the final result table hold at most one row
\* per product identifier, and the identifier of every row is one of the
\* candidates that were selected (skus_to_analyze).
C18_OneRowPerSelectedProduct ==
    /\ NoDuplicate(SkuColumn(results))
    /\ \A r \in Rows(results) : \E i \in 1..Len(skus_to_analyze) : r.SKU = skus_to_analyze[i]
    /\ pc = "done" =>
        /\ NoDuplicate(SkuColumn(valid_results))
        /\ \A r \in Rows(valid_results) :
               \E i \in 1..Len(skus_to_analyze) : r.SKU = skus_to_analyze[i]

C18_Witness ==
    /\ pc = "done"
    /\ Len(skus_to_analyze) = 2
    /\ Len(valid_results) = 2
    /\ valid_results[1].SKU = skus_to_analyze[1]
    /\ valid_results[2].SKU = skus_to_analyze[2]

\* The candidates of the run whose valid transactions are fewer than the
\* analyzer's minimum: the relaxed tiers admit them from 15 or 10 on.
BelowMinimum == {i \in 1..Len(skus_to_analyze) : sku_data[i].transactions < min_transactions}

\* C28: every row of run_analysis's results and of the table it returns is of
\* a product with at least self.min_transactions valid transactions; a
\* candidate with fewer, admitted by a relaxed tier, never yields a row.
C28_TransactionMinimumSurvives ==
    variant = "final" =>
        /\ \A r \in Rows(results) : r.transactions >= min_transactions
        /\ \A i \in BelowMinimum : \A r \in Rows(results) : r.SKU # skus_to_analyze[i]
        /\ pc = "done" =>
              \A r \in Rows(valid_results) :
                  \E i \in 1..Len(skus_to_analyze) :
                      /\ r.SKU = skus_to_analyze[i]
                      /\ sku_data[i].transactions >= min_transactions

\* A run over a relaxed-tier candidate with fewer transactions than the
\* minimum, whose estimate alone would have passed, and one with enough.
C28_Witness ==
    /\ pc = "done"
    /\ variant = "final"
    /\ Len(skus_to_analyze) = 2
    /\ BelowMinimum = {1}
    /\ sku_data[1].transactions >= 10
    /\ CalculateElasticityRobust(sku_data[1].methods) \notin {None, Raised}
    /\ CalculateElasticityRobust(sku_data[1].methods).r2 >= min_r2
    /\ Len(valid_results) = 1
    /\ valid_results[1].SKU = skus_to_analyze[2]

(***************************************************************************)
(* Price Segmenter                                                         *)
(***************************************************************************)

\* Largest price of the product whose prices are segmented.
MaxPrice == 8

\* The number of records priced below p, and the j-th record price in
\* ascending order (j from 0).
CountBelow(b, p) == BagMoment(b, {q \in DOMAIN b : q < p}, 0)

SortedAt(b, j) ==
    CHOOSE p \in BagPrices(b) : CountBelow(b, p) <= j /\ j < CountBelow(b, p) + b[p]

\* Series.quantile(k / q) / np.percentile, linear interpolation, times q.
QuantileEdge(b, k, q) ==
    LET n == BagCount(b)
        pos == (n - 1) * k
        lo == pos \div q
        rem == pos % q
        hi == IF lo + 1 > n - 1 THEN n - 1 ELSE lo + 1
    IN  q * SortedAt(b, lo) + rem * (SortedAt(b, hi) - SortedAt(b, lo))

\* The quantile edges with duplicates='drop'.
QuantileEdges(b, q) == {QuantileEdge(b, k, q) : k \in 0..q}

SetMin(S) == CHOOSE x \in S : \A y \in S : x <= y

\* The bins numbered from the highest edge down.
BinsToCutsDescending(b, edges, scale, include_lowest) ==
    [labels |-> [p \in BagPrices(b) |->
        LET below == Cardinality({e \in edges : e < scale * p})
            ids == IF include_lowest /\ scale * p = SetMin(edges) THEN 1 ELSE below
        IN  IF ids = 0 \/ ids = Cardinality(edges) THEN NaN
            ELSE Num(Cardinality(edges) - 1 - ids)]]

\* pandas _bins_to_cuts with labels=False and right-closed intervals: the
\* edges are scaled by scale; a price outside every interval has label NaN.
\* The segmentation is a record holding the label of each price met.
BinsToCuts(b, edges, scale, include_lowest) ==
    [labels |-> [p \in BagPrices(b) |->
        LET below == Cardinality({e \in edges : e < scale * p})
            ids == IF include_lowest /\ scale * p = SetMin(edges) THEN 1 ELSE below
        IN  IF ids = 0 \/ ids = Cardinality(edges) THEN NaN ELSE Num(ids - 1)]]

\* The quantile bins without include_lowest: the lowest edge is in no bin.
QcutOpenLowest(b, q) == BinsToCuts(b, QuantileEdges(b, q), q, FALSE)

\* pd.qcut(prices, q, labels=False, duplicates='drop'), and pd.cut on the
\* np.percentile edges with include_lowest=True, duplicates='drop'.
Qcut(b, q) == BinsToCuts(b, QuantileEdges(b, q), q, TRUE)

\* pd.cut(prices, bins=n): n equal-width bins over [min, max], the lowest edge
\* moved down by 0.1% of the range (of the price when min = max); edges are
\* scaled by 1000 * n.
EqualWidthEdges(b, n) ==
    LET mn == BagMin(b)
        mx == BagMax(b)
    IN  IF mn = mx
        THEN {1000 * n * mn - n * mn + 2 * i * mn : i \in 0..n}
        ELSE {1000 * n * mn - n * (mx - mn)}
                 \cup {1000 * n * mn + 1000 * i * (mx - mn) : i \in 1..n}

Methods == <<"dynamic", "percentile", "equal_width">>

\* The dynamic strategy with terciles from 2 distinct prices on.
CreatePriceSegmentsFromTwo(b, method) ==
    LET unique_prices == Cardinality(BagPrices(b))
    IN  CASE method = "dynamic" ->
               IF unique_prices >= 8 THEN Qcut(b, 5)
               ELSE IF unique_prices >= 5 THEN Qcut(b, 4)
               ELSE IF unique_prices >= 2 THEN Qcut(b, 3)
               ELSE None
          [] method = "percentile" -> Qcut(b, 4)
          [] method = "equal_width" -> BinsToCuts(b, EqualWidthEdges(b, 5), 5000, FALSE)

\* create_price_segments, lines 31-62.
CreatePriceSegments(b, method) ==
    LET unique_prices == Cardinality(BagPrices(b))
    IN  CASE method = "dynamic" ->
               IF unique_prices >= 8 THEN Qcut(b, 5)
               ELSE IF unique_prices >= 5 THEN Qcut(b, 4)
               ELSE IF unique_prices >= 3 THEN Qcut(b, 3)
               ELSE None
          [] method = "percentile" -> Qcut(b, 4)
          [] method = "equal_width" -> BinsToCuts(b, EqualWidthEdges(b, 5), 5000, FALSE)

\* The rows of groupby('Price_Segment'): one per label met, NaN labels left out.
NBuckets(seg) == Cardinality({seg.labels[p] : p \in DOMAIN seg.labels} \ {NaN})

\* What one strategy of calculate_elasticity_robust can give on a product
\* with these labels: nothing when there is no segmentation or under 3
\* buckets (lines 74-75, 93-94); otherwise the quantities decide between
\* skipping, raising and a fit on the buckets.
StrategyOutcomes(seg, k) ==
    IF seg = None THEN {None}
    ELSE IF NBuckets(seg) < 3 THEN {None}
    ELSE {None, Raised, [MethodFit[k] EXCEPT !.segments = NBuckets(seg)]}

SegmentBags == {b \in [1..MaxPrice -> {0, 1, 6}] : BagPrices(b) # {}}

\* calculate_elasticity_robust on one product.
SegmentAndEstimate ==
    /\ pc = "candidate"
    /\ segments' = [k \in 1..3 |-> CreatePriceSegments(sku_prices[1], Methods[k])]
    /\ \E o1 \in StrategyOutcomes(segments'[1], 1) :
       \E o2 \in StrategyOutcomes(segments'[2], 2) :
       \E o3 \in StrategyOutcomes(segments'[3], 3) :
          estimate' = CalculateElasticityRobust(<<o1, o2, o3>>)
    /\ pc' = "estimated"
    /\ variant' = "final"
    /\ UNCHANGED <<sku_prices, agg_data, method_results, validateVars, selectVars,
                   loopVars, filterVars>>

InitSegment ==
    /\ pc = "candidate"
    /\ variant = "none"
    /\ \E b \in SegmentBags : sku_prices = <<b>>
    /\ segments = <<>>
    /\ agg_data = <<>>
    /\ estimate = None
    /\ method_results = <<>>
    /\ IdleValidate
    /\ IdleSelect
    /\ IdleLoop
    /\ IdleFilter

NextSegment == SegmentAndEstimate

SpecSegment == InitSegment /\ [][NextSegment]_vars

(***************************************************************************)
(* Claims about the Price Segmenter                                        *)
(***************************************************************************)

DistinctPrices == Cardinality(BagPrices(sku_prices[1]))

\* C12: with fewer than 3 distinct prices the quantile strategy gives no
\* segmentation, no other strategy gives 3 or more non-empty buckets (the
\* buckets are never more than the distinct prices), and the product has no
\* estimate, even when tier 3 admits it.
C12_FewPricesNoResult ==
    pc = "estimated" =>
        /\ \A k \in 1..3 :
               segments[k] # None => NBuckets(segments[k]) <= DistinctPrices
        /\ DistinctPrices < 3 =>
               /\ segments[1] = None
               /\ \A k \in 2..3 : NBuckets(segments[k]) < 3
               /\ estimate = None

C12_Witness ==
    /\ pc = "estimated"
    /\ DistinctPrices = 2
    /\ PassesTier3(SummaryRow("A", sku_prices[1]))
    /\ NBuckets(segments[3]) = 2
    /\ estimate = None

\* The prices of the product that a segmentation puts in bucket l, and the
\* number of the product's records in the bucket, the rows that
\* groupby('Price_Segment').agg (lines 80-84) aggregates into it.
BucketPrices(b, seg, l) == {p \in BagPrices(b) : seg.labels[p] = Num(l)}
BucketCount(b, seg, l) == BagMoment(b, BucketPrices(b, seg, l), 0)

\* The labels a segmentation uses.
BucketLabels(seg) == {l \in 0..4 : \E p \in DOMAIN seg.labels : seg.labels[p] = Num(l)}

RECURSIVE SumOver(_, _, _, _)
SumOver(b, seg, S, l) ==
    IF l > 4 THEN 0
    ELSE (IF l \in S THEN BucketCount(b, seg, l) ELSE 0) + SumOver(b, seg, S, l + 1)

\* The transactions that are in some bucket of the aggregation.
BucketedTransactions(b, seg) == SumOver(b, seg, BucketLabels(seg), 0)


(***************************************************************************)
(* Segmentation of a product's validated rows                              *)
(***************************************************************************)

\* The prices (units of 0.01) of a product's rows, as a bag.
BagOf(rows) ==
    [p \in {rows[i].PRECIO.v : i \in 1..Len(rows)} |->
        Cardinality({i \in 1..Len(rows) : rows[i].PRECIO.v = p})]

\* analisis_elasticidad_completo.create_price_segments, lines 114-138.
SegmentsCompleto(b) ==
    LET unique_prices == Cardinality(BagPrices(b))
        n_segments == IF unique_prices <= 5
                      THEN (IF unique_prices - 1 > 3 THEN unique_prices - 1 ELSE 3)
                      ELSE 5
    IN  Qcut(b, n_segments)

\* The rows with their bucket label in a new column.
WithSegment(rows, seg) ==
    [i \in 1..Len(rows) |->
        [idx |-> rows[i].idx, SKU |-> rows[i].SKU, PRECIO |-> rows[i].PRECIO,
         QTY_ENTREGADA |-> rows[i].QTY_ENTREGADA, IMPORTE |-> rows[i].IMPORTE,
         Price_Segment |-> seg.labels[rows[i].PRECIO.v]]]

SkuRows(table, sku) == SelectSeq(table, LAMBDA r : r.SKU = sku)

\* The labels written to the product's rows of the shared table.
SegmentInPlace ==
    /\ pc = "validated"
    /\ \E sku \in {"A", "B"} : \E k \in 1..3 :
          LET rows == SkuRows(df_valid, sku)
          IN  /\ rows # <<>>
              /\ LET seg == IF variant = "final"
                            THEN CreatePriceSegments(BagOf(rows), Methods[k])
                            ELSE SegmentsCompleto(BagOf(rows))
                 IN  /\ seg # None
                     /\ sku_data_temp' = WithSegment(rows, seg)
                     /\ df_valid' = WithSegment(rows, seg)
                                        \o SelectSeq(df_valid, LAMBDA r : r.SKU # sku)
    /\ pc' = "segmented"
    /\ UNCHANGED <<variant, df, df_clean, selectVars, estimateVars, loopVars,
                   filterVars, summaryVars>>

\* analyze_product, line 127, and calculate_elasticity_robust, lines 77-78;
\* analisis_elasticidad_completo, lines 147-150: the product's rows are
\* copied and the labels go to the copy.
SegmentCopy ==
    /\ pc = "validated"
    /\ \E sku \in {"A", "B"} : \E k \in 1..3 :
          LET rows == SkuRows(df_valid, sku)
          IN  /\ rows # <<>>
              /\ LET seg == IF variant = "final"
                            THEN CreatePriceSegments(BagOf(rows), Methods[k])
                            ELSE SegmentsCompleto(BagOf(rows))
                 IN  /\ seg # None
                     /\ sku_data_temp' = WithSegment(rows, seg)
                     /\ df_valid' = df_valid
    /\ pc' = "segmented"
    /\ UNCHANGED <<variant, df, df_clean, selectVars, estimateVars, loopVars,
                   filterVars, summaryVars>>

NextFrame ==
    \/ NextValidate
    \/ SegmentCopy

SpecFrame == InitValidate /\ [][NextFrame]_vars

\* C17: the caller's input table is never changed, and once validated the
\* shared record table is never changed either: the bucket labels of a
\* product go to a copy of its rows.
C17_RecordsNeverMutated ==
    [][/\ df' = df
       /\ pc \in {"validated", "segmented"} => df_valid' = df_valid
       /\ pc' = "segmented" =>
             /\ \A i \in 1..Len(df_valid') : "Price_Segment" \notin DOMAIN df_valid'[i]
             /\ \A i \in 1..Len(sku_data_temp') :
                    "Price_Segment" \in DOMAIN sku_data_temp'[i]]_vars

C17_Witness ==
    /\ pc = "segmented"
    /\ Len(df) = 2
    /\ Len(df_valid) = 2
    /\ Len(sku_data_temp) = 1
    /\ sku_data_temp[1].Price_Segment # NaN
    /\ df[sku_data_temp[1].idx].PRECIO = <<"1", ",", "5">>


(***************************************************************************)
(* From the validated records to the profile table                         *)
(***************************************************************************)

\* The keys of groupby('SKU'): the identifiers met in the table, sorted.
GroupKeys(table) ==
    SelectSeq(SkuPool, LAMBDA sku : \E i \in 1..Len(table) : table[i].SKU = sku)

\* A row for every identifier of the normalized table, zero-filled for the
\* products without a valid record.
GroupProductsZeroFilled ==
    /\ pc = "validated"
    /\ product_summary' =
           [i \in 1..Len(GroupKeys(df_clean)) |->
               LET sku == GroupKeys(df_clean)[i]
               IN  IF SkuRows(df_valid, sku) # <<>>
                   THEN SummaryRow(sku, BagOf(SkuRows(df_valid, sku)))
                   ELSE [SKU |-> sku, transactions |-> 0, price_cv |-> NaN,
                         price_unique |-> 0, price_range_pct |-> NaN]]
    /\ pc' = "scored"
    /\ UNCHANGED <<variant, min_transactions, candidates, max_products, skus_to_analyze,
                   validateVars, estimateVars, loopVars, filterVars, summaryVars>>

\* run_analysis, lines 187-200, and analisis_elasticidad_completo, lines
\* 60-67: groupby('SKU') on the validated records.
GroupProducts ==
    /\ pc = "validated"
    /\ product_summary' =
           [i \in 1..Len(GroupKeys(df_valid)) |->
               LET sku == GroupKeys(df_valid)[i]
               IN  SummaryRow(sku, BagOf(SkuRows(df_valid, sku)))]
    /\ pc' = "scored"
    /\ UNCHANGED <<variant, min_transactions, candidates, max_products, skus_to_analyze,
                   validateVars, estimateVars, loopVars, filterVars, summaryVars>>

NextProfile ==
    \/ NextValidate
    \/ GroupProducts

SpecProfile == InitValidate /\ [][NextProfile]_vars

\* The rows of the profile table for a product.
ProfilesOf(sku) == {i \in 1..Len(product_summary) : product_summary[i].SKU = sku}

\* C26: the profile table has exactly one profile for each product
\* identifier met in the validated records, counting that product's valid
\* records, and none for any other product of the input.
C26_ProfileCoverage ==
    pc = "scored" =>
        \A sku \in {df[i].SKU : i \in 1..Len(df)} :
            LET valid == {i \in 1..Len(df_clean) : df_clean[i].SKU = sku
                                                    /\ ValidRecord(df_clean[i])}
            IN  IF valid = {}
                THEN ProfilesOf(sku) = {}
                ELSE /\ Cardinality(ProfilesOf(sku)) = 1
                     /\ \A i \in ProfilesOf(sku) :
                            product_summary[i].transactions = Cardinality(valid)

C26_Witness ==
    /\ pc = "scored"
    /\ Len(df) = 2
    /\ df[1].SKU = "B"
    /\ df[2].SKU = "A"
    /\ Len(df_valid) = 1
    /\ df_valid[1].SKU = "B"
    /\ Len(product_summary) = 1
    /\ product_summary[1].SKU = "B"

(***************************************************************************)
(* The quantile strategy                                                   *)
(***************************************************************************)

\* create_price_segments(prices, 'dynamic') on a candidate of run_analysis.
SegmentDynamic ==
    /\ pc = "candidate"
    /\ variant = "final"
    /\ segments' = <<CreatePriceSegments(sku_prices[1], "dynamic")>>
    /\ pc' = "segmented"
    /\ UNCHANGED <<variant, sku_prices, validateVars, selectVars, estimateVars,
                   loopVars, filterVars>>

\* create_price_segments(sku_data) on a viable product of
\* analisis_elasticidad_completo.
SegmentCompleto ==
    /\ pc = "candidate"
    /\ variant = "completo"
    /\ segments' = <<SegmentsCompleto(sku_prices[1])>>
    /\ pc' = "segmented"
    /\ UNCHANGED <<variant, sku_prices, validateVars, selectVars, estimateVars,
                   loopVars, filterVars>>

\* A candidate of run_analysis has at least 2 distinct prices (tier 3), a
\* viable product of analisis_elasticidad_completo at least MIN_UNIQUE_PRICES.
InitQuantile ==
    /\ pc = "candidate"
    /\ variant \in {"final", "completo"}
    /\ \E b \in SegmentBags :
          /\ Cardinality(BagPrices(b)) >=
                 (IF variant = "final" THEN 2 ELSE MIN_UNIQUE_PRICES)
          /\ sku_prices = <<b>>
    /\ segments = <<>>
    /\ IdleValidate
    /\ IdleSelect
    /\ IdleEstimate
    /\ IdleLoop
    /\ IdleFilter

NextQuantile ==
    \/ SegmentDynamic
    \/ SegmentCompleto

SpecQuantile == InitQuantile /\ [][NextQuantile]_vars

\* The number of quantile bins for a product with u distinct prices.
QuantileBins(u) == IF u >= 8 THEN 5 ELSE IF u >= 5 THEN 4 ELSE 3

\* C23: the quantile strategy cuts at 5 quantile bins when the product has
\* 8 or more distinct prices, at 4 when it has 5 to 7, at 3 when it has 3 or
\* 4, and gives no segmentation when it has fewer than 3; tied edges are
\* dropped, so it gives at most that many buckets and does not raise.
C23_QuantileBucketCount ==
    pc = "segmented" =>
        LET u == Cardinality(BagPrices(sku_prices[1]))
        IN  /\ u < 3 => segments[1] = None
            /\ u >= 3 =>
                  /\ segments[1] = Qcut(sku_prices[1], QuantileBins(u))
                  /\ NBuckets(segments[1]) <= QuantileBins(u)

\* The same for run_analysis alone.
C23_QuantileBucketCountFinal ==
    variant = "final" => C23_QuantileBucketCount

(***************************************************************************)
(* The buckets of every segmentation strategy                              *)
(***************************************************************************)

AdvancedMethods == <<"percentile", "fixed_bins", "std_based">>

\* The least k with k >= sqrt(num / den).
CeilSqrt(num, den) ==
    CHOOSE k \in 0..1000 :
        /\ k * k * den >= num
        /\ k = 0 \/ (k - 1) * (k - 1) * den < num

\* calculate_elasticity_advanced, lines 51-61: the edges min, mean - std,
\* mean, mean + std, max as a set, in units of 1 / (4 * count). Prices and
\* the mean are even in these units; mean -+ std is kept exact when it is an
\* integer and is otherwise the odd integer between its two even neighbours,
\* which orders it as the real number against every price and edge.
StdBasedEdges(b) ==
    LET n == BagCount(b)
        k == CeilSqrt(4 * n * BagDev(b), n - 1)
        exact == k * k * (n - 1) = 4 * n * BagDev(b)
    IN  {4 * n * BagMin(b),
         IF exact THEN 2 * (2 * BagSum(b) - k) ELSE 2 * (2 * BagSum(b) - k) + 1,
         4 * BagSum(b),
         IF exact THEN 2 * (2 * BagSum(b) + k) ELSE 2 * (2 * BagSum(b) + k) - 1,
         4 * n * BagMax(b)}

\* calculate_elasticity_advanced, lines 28-63: the bucket labels of a method.
AdvancedSegments(b, method) ==
    IF BagCount(b) < 10 THEN None
    ELSE CASE method = "percentile" -> Qcut(b, 5)
           [] method = "fixed_bins" ->
                LET unique_prices == Cardinality(BagPrices(b))
                    n_bins == IF unique_prices < 5 THEN unique_prices ELSE 5
                IN  BinsToCuts(b, EqualWidthEdges(b, n_bins), 1000 * n_bins, FALSE)
           [] method = "std_based" ->
                IF Cardinality(StdBasedEdges(b)) < 3 THEN None
                ELSE BinsToCuts(b, StdBasedEdges(b), 4 * BagCount(b), TRUE)

\* calculate_elasticity_robust, lines 66-75: create_price_segments for each
\* of its three methods.
SegmentRobust ==
    /\ pc = "candidate"
    /\ variant = "final"
    /\ segments' = [k \in 1..3 |-> CreatePriceSegments(sku_prices[1], Methods[k])]
    /\ pc' = "segmented"
    /\ UNCHANGED <<variant, sku_prices, validateVars, selectVars, estimateVars,
                   loopVars, filterVars>>

\* analyze_product_elasticity, lines 118-127: calculate_elasticity_advanced
\* for each of its three methods, up to the bucket labels.
SegmentAdvanced ==
    /\ pc = "candidate"
    /\ variant = "mejorado"
    /\ segments' = [k \in 1..3 |-> AdvancedSegments(sku_prices[1], AdvancedMethods[k])]
    /\ pc' = "segmented"
    /\ UNCHANGED <<variant, sku_prices, validateVars, selectVars, estimateVars,
                   loopVars, filterVars>>

\* The products handed to the strategies: some records at each of some prices.
BucketBags == {b \in [1..MaxPrice -> {0, 1, 10}] : BagPrices(b) # {}}

InitBuckets ==
    /\ pc = "candidate"
    /\ variant \in {"final", "mejorado", "completo"}
    /\ \E b \in BucketBags : sku_prices = <<b>>
    /\ segments = <<>>
    /\ IdleValidate
    /\ IdleSelect
    /\ IdleEstimate
    /\ IdleLoop
    /\ IdleFilter

NextBuckets ==
    \/ SegmentRobust
    \/ SegmentAdvanced
    \/ SegmentCompleto

SpecBuckets == InitBuckets /\ [][NextBuckets]_vars

\* Every record of the product has a bucket, and the bucket counts of the
\* aggregation add up to the product's records.
IsPartition(b, seg) ==
    /\ \A p \in BagPrices(b) : seg.labels[p] # NaN
    /\ BucketedTransactions(b, seg) = BagCount(b)

QuantileEdged(k) ==
    \/ variant = "final" /\ Methods[k] = "percentile"
    \/ variant = "mejorado" /\ AdvancedMethods[k] = "percentile"
    \/ variant = "completo"

BucketSum(b, seg, l) == BagMoment(b, BucketPrices(b, seg, l), 1)

\* mean(bucket l) < mean(bucket m), on the exact fractions.
MeanLt(b, seg, l, m) ==
    BucketSum(b, seg, l) * BucketCount(b, seg, m) < BucketSum(b, seg, m) * BucketCount(b, seg, l)

StrategyNames(v) ==
    IF v = "final" THEN <<"dynamic", "percentile", "equal_width">>
    ELSE <<"percentile", "fixed_bins", "std_based">>

\* The fits a strategy may give (elasticity in 0.1, R-squared in 0.01).
StrategyFits(name) ==
    [elasticity : {-12, -8}, r2 : {0, 50, 70}, segments : {3, 5}, method : {name}]

\* What the strategies of a variant give: robust's strategies may raise
\* inside the try block, calculate_elasticity_advanced returns None or a fit.
StrategyResults(v) ==
    {m \in [1..3 -> {None, Raised} \cup UNION {StrategyFits(StrategyNames(v)[k]) : k \in 1..3}] :
        \A k \in 1..3 :
            /\ m[k] \in {None, Raised} \cup StrategyFits(StrategyNames(v)[k])
            /\ v = "mejorado" => m[k] # Raised}

\* The result of the last strategy that gave one.
AnalyzeProductElasticityLast(method_outcomes) ==
    LET given == {k \in 1..Len(method_outcomes) : method_outcomes[k] # None}
    IN  IF given = {} THEN None
        ELSE LET best_method == CHOOSE k \in given : \A j \in given : j <= k
                 best_result == method_outcomes[best_method]
             IN  [elasticity |-> best_result.elasticity, r2 |-> best_result.r2,
                  segments |-> best_result.segments, method |-> best_result.method]

\* analyze_product_elasticity, lines 118-145: max() keeps the first of the
\* results with the largest r2.
AnalyzeProductElasticity(method_outcomes) ==
    LET given == {k \in 1..Len(method_outcomes) : method_outcomes[k] # None}
    IN  IF given = {} THEN None
        ELSE LET best_method ==
                     CHOOSE k \in given :
                         /\ \A j \in given : method_outcomes[j].r2 <= method_outcomes[k].r2
                         /\ \A j \in given :
                                j < k => method_outcomes[j].r2 < method_outcomes[k].r2
                 best_result == method_outcomes[best_method]
             IN  [elasticity |-> best_result.elasticity, r2 |-> best_result.r2,
                  segments |-> best_result.segments, method |-> best_result.method]

RobustSelect ==
    /\ pc = "strategies"
    /\ variant = "final"
    /\ estimate' = CalculateElasticityRobust(method_results)
    /\ pc' = "estimated"
    /\ UNCHANGED <<variant, agg_data, method_results, validateVars, selectVars,
                   loopVars, filterVars, summaryVars>>

AdvancedSelect ==
    /\ pc = "strategies"
    /\ variant = "mejorado"
    /\ estimate' = AnalyzeProductElasticity(method_results)
    /\ pc' = "estimated"
    /\ UNCHANGED <<variant, agg_data, method_results, validateVars, selectVars,
                   loopVars, filterVars, summaryVars>>

InitStrategies ==
    /\ pc = "strategies"
    /\ variant \in {"final", "mejorado"}
    /\ method_results \in StrategyResults(variant)
    /\ agg_data = <<>>
    /\ estimate = None
    /\ IdleValidate
    /\ IdleSummary
    /\ IdleSelect
    /\ IdleLoop
    /\ IdleFilter

NextStrategies ==
    \/ RobustSelect
    \/ AdvancedSelect

SpecStrategies == InitStrategies /\ [][NextStrategies]_vars

\* The strategies that produced a result for the product.
Produced == {k \in 1..Len(method_results) : method_results[k] \notin {None, Raised}}

\* C20: the returned elasticity, R-squared, segment count and method label
\* are those of one strategy that produced a result, no strategy that
\* produced a result has a larger R-squared, and there is no result only
\* when no strategy produced one.
C20_MaxR2Selection ==
    pc = "estimated" =>
        /\ estimate # Raised
        /\ estimate = None => Produced = {}
        /\ estimate # None =>
              \E k \in Produced :
                  /\ estimate.elasticity = method_results[k].elasticity
                  /\ estimate.r2 = method_results[k].r2
                  /\ estimate.segments = method_results[k].segments
                  /\ estimate.method = method_results[k].method
                  /\ \A j \in Produced : method_results[j].r2 <= method_results[k].r2

C20_Witness ==
    /\ pc = "estimated"
    /\ Produced = {1, 2, 3}
    /\ method_results[1].r2 = 50
    /\ method_results[2].r2 = 70
    /\ method_results[3].r2 = 70
    /\ estimate # None
    /\ estimate.method = "fixed_bins"


(***************************************************************************)
(* The profile in floating point                                           *)
(***************************************************************************)

\* Significant bits of a float (53 in the float64 columns of the program).
FloatBits == 6

\* n / d (n > 0, d > 0) scaled by a power of two into [2^(FloatBits-1), 2^FloatBits).
RECURSIVE Normalize(_, _, _)
Normalize(n, d, e) ==
    IF n < (2 ^ (FloatBits - 1)) * d THEN Normalize(2 * n, d, e - 1)
    ELSE IF n >= (2 ^ FloatBits) * d THEN Normalize(n, 2 * d, e + 1)
    ELSE [n |-> n, d |-> d, e |-> e]

MakeFloat(m, e) == IF e >= 0 THEN Rat(m * (2 ^ e), 1) ELSE Rat(m, 2 ^ (0 - e))

\* The float nearest to n / d (n >= 0, d > 0), ties to even.
FRound(n, d) ==
    IF n = 0 THEN Rat(0, 1)
    ELSE LET s == Normalize(n, d, 0)
             q == s.n \div s.d
             r == s.n % s.d
             m == IF 2 * r > s.d \/ (2 * r = s.d /\ q % 2 = 1) THEN q + 1 ELSE q
         IN  MakeFloat(m, s.e)

FMul(a, b) == FRound(a.n * b.n, a.d * b.d)
FDiv(a, b) == FRound(a.n * b.d, a.d * b.n)
FSub(a, b) == FRound(a.n * b.d - b.n * a.d, a.d * b.d)
FGe(a, b) == a.n * b.d >= b.n * a.d

\* n / d scaled by a power of four into [4^(FloatBits-1), 4^FloatBits).
RECURSIVE Normalize4(_, _, _)
Normalize4(n, d, e) ==
    IF n < (4 ^ (FloatBits - 1)) * d THEN Normalize4(4 * n, d, e - 1)
    ELSE IF n >= (4 ^ FloatBits) * d THEN Normalize4(n, 4 * d, e + 1)
    ELSE [n |-> n, d |-> d, e |-> e]

\* The float nearest to the square root of n / d (n >= 0, d > 0).
FSqrt(n, d) ==
    IF n = 0 THEN Rat(0, 1)
    ELSE LET s == Normalize4(n, d, 0)
             m == CHOOSE k \in (2 ^ (FloatBits - 1))..(2 ^ FloatBits) :
                      /\ (2 * k - 1) * (2 * k - 1) * s.d <= 4 * s.n
                      /\ 4 * s.n < (2 * k + 1) * (2 * k + 1) * s.d
         IN  MakeFloat(m, s.e)

\* A product's prices as floats: price |-> number of records.  Every price
\* is a multiple of 1 / FloatDen(fb).
FloatDen(fb) == CHOOSE d \in {q.d : q \in DOMAIN fb} : \A q \in DOMAIN fb : q.d <= d

FloatUnits(fb, q) == q.n * (FloatDen(fb) \div q.d)

RECURSIVE FloatMoment(_, _, _)
FloatMoment(fb, S, k) ==
    IF S = {} THEN 0
    ELSE LET q == CHOOSE x \in S : TRUE
         IN  fb[q] * (FloatUnits(fb, q) ^ k) + FloatMoment(fb, S \ {q}, k)

FloatMax(fb) == CHOOSE q \in DOMAIN fb : \A x \in DOMAIN fb : FGe(q, x)
FloatMin(fb) == CHOOSE q \in DOMAIN fb : \A x \in DOMAIN fb : FGe(x, q)

\* groupby('SKU').agg mean and std of PRECIO, each the float nearest to the
\* exact value.
FloatMean(fb) ==
    FRound(FloatMoment(fb, DOMAIN fb, 1), FloatMoment(fb, DOMAIN fb, 0) * FloatDen(fb))

FloatStd(fb) ==
    LET n == FloatMoment(fb, DOMAIN fb, 0)
        s1 == FloatMoment(fb, DOMAIN fb, 1)
        s2 == FloatMoment(fb, DOMAIN fb, 2)
    IN  FSqrt(n * s2 - s1 * s1, n * (n - 1) * FloatDen(fb) * FloatDen(fb))

\* The price range left in price units, not divided by the mean.
FloatRowAbsoluteRange(v, sku, fb) ==
    LET range == FSub(FloatMax(fb), FloatMin(fb))
    IN  [SKU |-> sku,
         transactions |-> FloatMoment(fb, DOMAIN fb, 0),
         price_cv |-> FDiv(FloatStd(fb), FloatMean(fb)),
         price_unique |-> Cardinality(DOMAIN fb),
         price_range_pct |-> IF v = "completo" THEN FMul(range, Rat(100, 1)) ELSE range]

\* run_analysis, lines 199-200, and analisis_elasticidad_completo, lines
\* 65-66 (Rango_Pct is in percent).
FloatRow(v, sku, fb) ==
    LET range == FDiv(FSub(FloatMax(fb), FloatMin(fb)), FloatMean(fb))
    IN  [SKU |-> sku,
         transactions |-> FloatMoment(fb, DOMAIN fb, 0),
         price_cv |-> FDiv(FloatStd(fb), FloatMean(fb)),
         price_unique |-> Cardinality(DOMAIN fb),
         price_range_pct |-> IF v = "completo" THEN FMul(range, Rat(100, 1)) ELSE range]

\* The float literals that price_cv and price_range_pct are compared with.
CvThresholds(v) ==
    IF v = "completo" THEN {FRound(10, 100)}
    ELSE {FRound(15, 100), FRound(10, 100), FRound(5, 100)}

RangeThresholds(v) ==
    IF v = "completo" THEN {Rat(15, 1)}
    ELSE {FRound(30, 100), FRound(20, 100)}

\* The prices of a bag, each multiplied by k.
ScaleBag(b, k) ==
    LET scaled(p) == FMul(Rat(p, 1), k)
    IN  [q \in {scaled(p) : p \in BagPrices(b)} |->
            BagMoment(b, {p \in BagPrices(b) : scaled(p) = q}, 0)]

ScaleVals == {Rat(2, 1), Rat(1, 4), Rat(3, 1), Rat(3, 4)}

ScalePriceVals == {8, 9, 10, 11, 12}

ScaleBags ==
    {b \in [ScalePriceVals -> {0, 1, 7}] : Cardinality(BagPrices(b)) >= 2}

ProfileFloats ==
    /\ pc = "grouped"
    /\ product_summary' =
           [i \in 1..Len(sku_prices) |-> FloatRow(variant, SkuPool[i], sku_prices[i])]
    /\ pc' = "scored"
    /\ UNCHANGED <<variant, min_transactions, candidates, max_products, skus_to_analyze,
                   validateVars, estimateVars, loopVars, filterVars, summaryVars>>

\* Product A, and product B whose prices are those of A times k.
InitScale ==
    /\ pc = "grouped"
    /\ variant \in {"final", "completo"}
    /\ \E b \in ScaleBags : \E k \in ScaleVals :
          sku_prices = <<ScaleBag(b, Rat(1, 1)), ScaleBag(b, k)>>
    /\ segments = <<>>
    /\ IdleSelect
    /\ IdleValidate
    /\ IdleEstimate
    /\ IdleLoop
    /\ IdleFilter

NextScale == ProfileFloats

SpecScale == InitScale /\ [][NextScale]_vars

\* B's prices are A's times the power of two k.
ScaledBy(k) ==
    sku_prices[2] = [q \in {FMul(p, k) : p \in DOMAIN sku_prices[1]} |->
                        sku_prices[1][CHOOSE p \in DOMAIN sku_prices[1] : FMul(p, k) = q]]

SameOutcomes ==
    /\ \A t \in CvThresholds(variant) :
           FGe(product_summary[1].price_cv, t) <=> FGe(product_summary[2].price_cv, t)
    /\ \A t \in RangeThresholds(variant) :
           FGe(product_summary[1].price_range_pct, t)
               <=> FGe(product_summary[2].price_range_pct, t)

SameRatios ==
    /\ product_summary[1].price_cv = product_summary[2].price_cv
    /\ product_summary[1].price_range_pct = product_summary[2].price_range_pct

====
